---------------------------- MODULE Spec2Model ----------------------------
(***************************************************************************)
(* Model of the TiKV member manager of tikv-operator                       *)
(* (pkg/manager/member/tikv_nodeport_external_access.go): one Sync cycle   *)
(* of tikvMemberManager over a TikvCluster object, the platform objects it *)
(* owns (StatefulSet, pods, services, config map) and the placement        *)
(* service (PD) it polls.  A cycle is a sequence of steps, one action per  *)
(* step of Sync / syncStatefulSetForTikvCluster; the environment (spec     *)
(* edits, PD store state changes, pod roll-out, the clock) moves only      *)
(* between cycles, as the work queue runs one Sync per cluster at a time.  *)
(***************************************************************************)
(***************************************************************************)
(* Error returns left out, as their calls fail on no input the manager     *)
(* builds: encoding the last-applied-config annotation (lines 245-248,     *)
(* 265-268, 313-316), compiling the owned-address pattern (688-690,        *)
(* 786-789) and building the label selectors (199-202, 873-876).  The      *)
(* Scaler, Upgrader and Failover implementations, updateStatefulSet,       *)
(* templateEqual, statefulSetIsUpgrading, CreateOrUpdateConfigMap and the  *)
(* TikvCluster helpers (TiKVStsDesiredReplicas, TiKVAllPodsStarted,        *)
(* TiKVAllStoresReady, PDIsAvailable) are called by this file and defined  *)
(* elsewhere; they are modelled from the specification's sections 4.1-4.4. *)
(***************************************************************************)
EXTENDS Integers, Sequences, FiniteSets, TLC

(* ------------------------------ bounds -------------------------------- *)
\* Largest replica count a cluster spec declares.
MaxReplicas == 2
\* Largest failure budget (spec.tikv.maxFailoverCount) a cluster declares.
MaxFailover == 1
\* Last tick of the clock.
MaxTime == 3
\* Largest (non-zero) heartbeat timestamp PD reports.
MaxHb == 2
\* Number of distinct pod templates (images) a spec chooses from.
MaxTemplate == 2
\* Distinct contents the cluster's TiKV config takes.
MaxConfig == 2

\* Grace period after which a Down store counts as failed (tikvFailoverPeriod).
Grace == 1

\* Ordinals the workload can ever hold: spec replicas plus failover spares.
MaxOrd == MaxReplicas + MaxFailover
Ordinals == 0 .. (MaxOrd - 1)
\* Stores whose address matches this cluster's pattern: store s runs in pod s-1.
Stores == 1 .. MaxOrd
\* A store that joined PD from outside the cluster (address of another cluster).
ExternalStore == MaxOrd + 1
AllStores == Stores \cup {ExternalStore}
StoreOrd(s) == s - 1

\* Service names: 0 is the headless peer service, i+1 the NodePort service of index i.
PeerSvc == 0
SvcNames == 0 .. MaxOrd

VARIABLES
    \* tc.Spec
    specReplicas,      \* tc.Spec.TiKV.Replicas
    paused,            \* tc.Spec.Paused
    specTemplate,      \* what the pod template is synthesized from (image, ...)
    hasConfig,         \* tc.Spec.TiKV.Config != nil
    configStrategy,    \* tc.BaseTiKVSpec().ConfigUpdateStrategy()
    configContent,     \* the content tc.Spec.TiKV.Config renders to
    maxFailoverCount,  \* tc.Spec.TiKV.MaxFailoverCount, -1 for nil
    extListener,       \* a NodePort external listener is declared
    \* tikvMemberManager
    autoFailover,      \* tkmm.autoFailover
    \* nodes
    bareNode,          \* ordinal of the pod whose node has no location labels (or
                       \* cannot be resolved), -1 for none
    \* placement service, label API
    labelReject,       \* the stores whose label push PD rejects
    \* tc.Status.PD, owned by the PD member manager
    pdAvailable,       \* tc.PDIsAvailable()
    pdPhase,           \* tc.Status.PD.Phase
    \* placement service, replication config
    locationLabels,    \* config.Replication.LocationLabels, {} for nil
    \* platform objects
    set,               \* the StatefulSet <tc>-tikv as the lister returns it
    podRev,            \* pod ordinal -> controller-revision-hash label (0: no pod)
    svc,               \* service name -> "absent" | "same" | "stale" w.r.t. desired
    svcHost,           \* service name -> ordinal of the pod whose host IP the
                       \* stored service has as external IP (-1: none)
    listDescending,    \* the pod lister returns the pods by descending ordinal
    cmObj,             \* config map: "absent" | "same" | "stale" w.r.t. desired
    cmName,            \* the name of the config map that exists (NoName: none)
    mounted,           \* the config map name the set's pod template mounts
    \* placement service
    pd,                \* store id -> [state, hb, labels]
    \* tc.Status.TiKV
    status,
    \* clock
    now,
    \* the running cycle
    pc,                \* position in Sync
    oldSet,            \* the StatefulSet as this cycle read it (oldSet)
    newSet,            \* the desired StatefulSet of this cycle (newSet)
    steps,             \* steps this cycle has run, in order
    writes,            \* writes this cycle has issued, in order
    result,            \* what Sync returned: "none" | "ok" | "requeue" | "error"
    status0,           \* tc.Status.TiKV as it was when the cycle began
    setCount,          \* the count setStoreLabelsForTiKV returned
    cm,                \* the name of the config map this cycle synthesized
                       \* (NoName: nil)
    failedCall,        \* the fetch whose error ended status sync or label
                       \* propagation in this cycle, "none" if none did
    \* history
    lastSync           \* "ok" | "quiet": the last cycle returned success with |
                       \* without writes and nothing has moved since; "changed":
                       \* anything else

specVars  == <<specReplicas, paused, specTemplate, hasConfig, configStrategy, configContent, maxFailoverCount, extListener, autoFailover,
               bareNode, labelReject>>
pdmVars   == <<pdAvailable, pdPhase, locationLabels>>
platVars  == <<set, podRev, svc, svcHost, listDescending, cmObj, cmName, mounted>>
cycleVars == <<pc, oldSet, newSet, steps, writes, result, status0, failedCall, cm, setCount>>
vars == <<specVars, pdmVars, platVars, pd, status, now, cycleVars, lastSync>>

NormalPhase  == "Normal"
UpgradePhase == "Upgrade"

\* No StatefulSet (the lister's NotFound), and the zero value of newSet between cycles.
NoSet == [exists |-> FALSE, replicas |-> 0, partition |-> 0, template |-> 0]
\* tc.Status.TiKV.StatefulSet == nil
NilMirror == [nil |-> TRUE, replicas |-> 0, updateRevision |-> 0]
\* &apps.StatefulSetStatus{}
EmptyMirror == [nil |-> FALSE, replicas |-> 0, updateRevision |-> 0]
NoStores == [s \in {} |-> 0]
\* A store PD has never seen.
\* Store labels and node labels: maps from label keys to values.
NoLabels == [k \in {} |-> 0]
ZoneLabels == [k \in {"zone"} |-> 1]

AbsentStore == [state |-> "Absent", hb |-> 0, labels |-> NoLabels]

\* ClusterStatus is created empty on the first sync of a cluster object.
EmptyStatus ==
    [statefulSet |-> NilMirror, phase |-> NormalPhase, synced |-> FALSE,
     stores |-> NoStores, tombstoneStores |-> NoStores, failureStores |-> NoStores]


(* --------------------------- helpers ----------------------------------- *)
Max(a, b) == IF a > b THEN a ELSE b
Min(a, b) == IF a < b THEN a ELSE b

\* The pods of the workload, as podLister lists them.
Pods == {i \in Ordinals : podRev[i] # 0}

\* set.Status as the platform reports it: the replicas that exist and the
\* revision the pod template of the set hashes to.
SetStatus(s) == [nil |-> FALSE, replicas |-> Cardinality(Pods), updateRevision |-> s.template]

\* The platform's own "rolling update in progress" test on the set's status:
\* currentRevision differs from updateRevision until every pod is on the
\* update revision.
statefulSetIsUpgrading(s) == \E i \in Pods : podRev[i] # s.template

\* tc.TiKVStsDesiredReplicas(): the declared replicas plus one spare per failure record.
TiKVStsDesiredReplicas(st) == specReplicas + Cardinality(DOMAIN st.failureStores)

\* tc.TiKVAllPodsStarted(): every desired replica exists in the mirrored workload status.
TiKVAllPodsStarted(st) == TiKVStsDesiredReplicas(st) = st.statefulSet.replicas

\* tc.TiKVAllStoresReady(): one Up store per desired replica.
TiKVAllStoresReady(st) ==
    /\ TiKVStsDesiredReplicas(st) = Cardinality(DOMAIN st.stores)
    /\ \A s \in DOMAIN st.stores : st.stores[s].state = "Up"

(* ------------------------ StoreStatusSync ------------------------------ *)
\* pdCli.GetStores(): the Up / Down / Offline stores.
GetStores == {s \in AllStores : pd[s].state \in {"Up", "Down", "Offline"}}
\* pdCli.GetTombStoneStores()
GetTombStoneStores == {s \in AllStores : pd[s].state = "Tombstone"}

\* Variant of OwnedAddress that takes every store PD reports as the cluster's.
OwnedAddressAny(s) == TRUE

\* Variant of OwnedAddress that recognises no store of the cluster; C5 fails
\* under it.
OwnedAddressNone(s) == FALSE

\* tikvStoreLimitPattern matched against the store's address.
OwnedAddress(s) == s \in Stores

\* getTiKVStore: the status record of a listed store; LastTransitionTime is
\* left zero here.
getTiKVStore(s) ==
    [podName |-> StoreOrd(s), state |-> pd[s].state, hb |-> pd[s].hb, ltt |-> 0]

\* Variant of ActiveStoreStatus that records the reported heartbeat as it is;
\* C11 fails under it.
ActiveStoreStatusNoCarry(previousStores, s) ==
    LET st0 == getTiKVStore(s)
        ltt == IF s \in DOMAIN previousStores /\ previousStores[s].state = st0.state
                 THEN previousStores[s].ltt ELSE now
    IN  [st0 EXCEPT !.ltt = ltt]

\* Variant of ActiveStoreStatus that stamps every entry with the current time;
\* C12 fails under it.
ActiveStoreStatusRestamped(previousStores, s) ==
    LET st0 == getTiKVStore(s)
        hb  == IF st0.hb = 0 /\ s \in DOMAIN previousStores
                 THEN previousStores[s].hb ELSE st0.hb
    IN  [st0 EXCEPT !.hb = hb, !.ltt = now]

\* One owned entry of the active listing, merged with the previous mapping:
\* a zero heartbeat keeps the previous one, and the transition time moves only
\* with the state.
ActiveStoreStatus(previousStores, s) ==
    LET st0 == getTiKVStore(s)
        hb  == IF st0.hb = 0 /\ s \in DOMAIN previousStores
                 THEN previousStores[s].hb ELSE st0.hb
        ltt == IF s \in DOMAIN previousStores /\ previousStores[s].state = st0.state
                 THEN previousStores[s].ltt ELSE now
    IN  [st0 EXCEPT !.hb = hb, !.ltt = ltt]

\* tikvStatefulSetIsUpgrading: the set is mid-update, or some pod's revision
\* hash is not the update revision mirrored into status.
tikvStatefulSetIsUpgrading(s, st) ==
    \/ statefulSetIsUpgrading(s)
    \/ \E i \in Pods : podRev[i] # st.statefulSet.updateRevision

\* The phase a status sync records.
SyncedPhase(upgrading) ==
    IF upgrading /\ pdPhase # UpgradePhase THEN UpgradePhase ELSE NormalPhase

\* Variant of RefreshStatus that assigns the store mappings it has built so
\* far (none) when a listing fails.
RefreshStatusAssigning(st, s, fail) ==
      LET s1 == [st EXCEPT !.statefulSet = SetStatus(s)]
          s2 == [s1 EXCEPT !.phase = SyncedPhase(tikvStatefulSetIsUpgrading(s, s1))]
          previousStores == st.stores
          owned  == {x \in GetStores : OwnedAddress(x)}
          ownedT == {x \in GetTombStoneStores : OwnedAddress(x)}
      IN  CASE fail = "upgrading" -> s1
            [] fail \in {"stores", "tombstone"} ->
                 [s2 EXCEPT !.synced = FALSE, !.stores = NoStores, !.tombstoneStores = NoStores]
            [] OTHER ->
                 [s2 EXCEPT !.synced = TRUE,
                            !.stores = [x \in owned |-> ActiveStoreStatus(previousStores, x)],
                            !.tombstoneStores = [x \in ownedT |-> getTiKVStore(x)]]

\* syncTikvClusterStatus past its "set == nil" return: the status it leaves,
\* given which call (if any) failed: "none" | "upgrading" | "stores" | "tombstone".
\* Variant of RefreshStatus that keeps the entries of the previous mapping
\* whose store is no longer listed.
RefreshStatusKeeping(st, s, fail) ==
      LET s1 == [st EXCEPT !.statefulSet = SetStatus(s)]
          s2 == [s1 EXCEPT !.phase = SyncedPhase(tikvStatefulSetIsUpgrading(s, s1))]
          previousStores == st.stores
          owned  == {x \in GetStores : OwnedAddress(x)}
          ownedT == {x \in GetTombStoneStores : OwnedAddress(x)}
      IN  CASE fail = "upgrading" -> s1
            [] fail \in {"stores", "tombstone"} -> [s2 EXCEPT !.synced = FALSE]
            [] OTHER ->
                 [s2 EXCEPT !.synced = TRUE,
                            !.stores = [x \in owned \cup DOMAIN previousStores |->
                                          IF x \in owned THEN ActiveStoreStatus(previousStores, x)
                                                         ELSE previousStores[x]],
                            !.tombstoneStores = [x \in ownedT |-> getTiKVStore(x)]]

RefreshStatus(st, s, fail) ==
      LET s1 == [st EXCEPT !.statefulSet = SetStatus(s)]
          s2 == [s1 EXCEPT !.phase = SyncedPhase(tikvStatefulSetIsUpgrading(s, s1))]
          previousStores == st.stores
          owned  == {x \in GetStores : OwnedAddress(x)}
          ownedT == {x \in GetTombStoneStores : OwnedAddress(x)}
      IN  CASE fail = "upgrading" -> s1
            [] fail \in {"stores", "tombstone"} -> [s2 EXCEPT !.synced = FALSE]
            [] OTHER ->
                 [s2 EXCEPT !.synced = TRUE,
                            !.stores = [x \in owned |-> ActiveStoreStatus(previousStores, x)],
                            !.tombstoneStores = [x \in ownedT |-> getTiKVStore(x)]]

\* Variant of syncTikvClusterStatus that also skips a paused cluster; C2 fails
\* under it.
syncTikvClusterStatusUnlessPaused(st, s, fail) ==
    IF ~s.exists \/ paused THEN st ELSE RefreshStatus(st, s, fail)

\* syncTikvClusterStatus(tc, set): skipped when the set is not created yet.
syncTikvClusterStatus(st, s, fail) ==
    IF ~s.exists THEN st ELSE RefreshStatus(st, s, fail)

\* Whether syncTikvClusterStatus returns an error.
StatusSyncFails(s, fail) == s.exists /\ fail # "none"


(* ---------------------- DesiredStateSynthesizer ------------------------ *)
\* Variant of getNewTiKVSetForTikvCluster that takes the declared replica
\* count as it is, without the spares of the failure records.
getNewTiKVSetDeclaredOnly(st) ==
    [exists |-> TRUE,
     replicas |-> specReplicas,
     partition |-> specReplicas,
     template |-> specTemplate]

\* getNewTiKVSetForTikvCluster: replicas and rolling-update partition are both
\* tc.TiKVStsDesiredReplicas(); the pod template comes from the spec.
\* Variant of getNewTiKVSetForTikvCluster that counts the failure records the
\* cycle started with.
getNewTiKVSetBeforeRecover(st) ==
    [exists |-> TRUE,
     replicas |-> specReplicas + Cardinality(DOMAIN status0.failureStores),
     partition |-> specReplicas + Cardinality(DOMAIN status0.failureStores),
     template |-> specTemplate]

getNewTiKVSetForTikvCluster(st) ==
    [exists |-> TRUE,
     replicas |-> TiKVStsDesiredReplicas(st),
     partition |-> TiKVStsDesiredReplicas(st),
     template |-> specTemplate]

(* ----------------------------- config map ----------------------------- *)
\* Config map names: none, controller.TiKVMemberName(tc.Name), and that name
\* with the digest of a content appended.
NoName == 0
BaseName == 1
AddConfigMapDigestSuffix(name, content) == name * 10 + content

\* strings.HasPrefix on config map names.
HasPrefix(name, prefix) == name = prefix \/ name \div 10 = prefix

\* The two config update strategies.
InPlace == "InPlace"
RollingUpdate == "RollingUpdate"

\* getTikVConfigMap: the name the synthesized config map gets.
getTikVConfigMap ==
    IF configStrategy = RollingUpdate
      THEN AddConfigMapDigestSuffix(BaseName, configContent)
      ELSE BaseName

\* FindConfigMapVolume on the observed set's pod template: the mounted config
\* map whose name starts with the member name, if any.
FindConfigMapVolume ==
    IF mounted # NoName /\ HasPrefix(mounted, BaseName) THEN mounted ELSE NoName

\* Variant of ConfigMapName that always takes the synthesized name.
ConfigMapNameFresh(old) == getTikVConfigMap

\* syncTiKVConfigMap: the name of the config map it upserts, the mounted one
\* under the InPlace strategy when the set exists and mounts one.
ConfigMapName(old) ==
    IF old.exists /\ configStrategy = InPlace /\ FindConfigMapVolume # NoName
      THEN FindConfigMapVolume
      ELSE getTikVConfigMap

\* The config map the lister returns under that name, against the desired one.
ConfigObserved == IF cmName = ConfigMapName(oldSet) THEN cmObj ELSE "absent"

\* The config map name the pod template of the desired set mounts:
\* cm.Name, or the member config map name without a config.
MountOf(c) == IF c = NoName THEN BaseName ELSE c

\* templateEqual(newSet, oldSet): the pod templates agree (replica count
\* ignored); the mounted config map is part of the pod template.
templateEqual(new, old) == new.template = old.template /\ MountOf(cm) = mounted

(* ------------------------- FailoverController -------------------------- *)
\* Stores observed Down for longer than the grace deadline, without a record.
FailoverCandidates(st) ==
    {s \in DOMAIN st.stores :
        /\ st.stores[s].state = "Down"
        /\ now > st.stores[s].ltt + Grace
        /\ s \notin DOMAIN st.failureStores}

\* How many records the budget still allows.
FailoverRoom(st) == Max(0, maxFailoverCount - Cardinality(DOMAIN st.failureStores))

\* Failover(tc): a record (store id, pod, now) for each candidate while the
\* budget lasts; `chosen` is the candidates the iteration reached first.
Failover(st, chosen) ==
    [st EXCEPT !.failureStores =
        [s \in DOMAIN st.failureStores \cup chosen |->
            IF s \in DOMAIN st.failureStores THEN st.failureStores[s]
            ELSE [podName |-> st.stores[s].podName, createdAt |-> now]]]

\* The sets of candidates one Failover call can end up recording.
FailoverChoices(st) ==
    {c \in SUBSET FailoverCandidates(st) :
        Cardinality(c) = Min(Cardinality(FailoverCandidates(st)), FailoverRoom(st))}

\* Recover(tc): delete the record of every store now observed Up again.
Recover(st) ==
    LET up == {s \in DOMAIN st.failureStores :
                  s \in DOMAIN st.stores /\ st.stores[s].state = "Up"}
    IN  [st EXCEPT !.failureStores =
            [s \in DOMAIN st.failureStores \ up |-> st.failureStores[s]]]

(* -------------------------- UpgradeController -------------------------- *)
\* The store of pod ordinal i in the status mapping is Up.
StoreUpAt(st, i) ==
    \E s \in DOMAIN st.stores : st.stores[s].podName = i /\ st.stores[s].state = "Up"

\* Upgrade(tc, oldSet, newSet): the partition the desired set gets.  A new
\* template starts at "no replica updated yet"; an upgrade in flight resumes
\* from the committed partition p and lowers it by one ordinal when nothing is
\* updated yet or the most recently updated ordinal (p) runs the new revision
\* and its store is Up.
Upgrade(st, old, new) ==
    IF ~templateEqual(new, old) THEN new
    ELSE
      LET p == old.partition
          mayStep == /\ p > 0
                     /\ \/ p >= old.replicas
                        \/ podRev[p] = new.template /\ StoreUpAt(st, p)
      IN  [new EXCEPT !.partition = IF mayStep THEN p - 1 ELSE p]

(* --------------------------- ScaleController --------------------------- *)
\* Grow is held back while a failure record names an ordinal it would add.
ScaleOutBlocked(st, old, new) ==
    \E f \in DOMAIN st.failureStores :
        st.failureStores[f].podName \in old.replicas .. (new.replicas - 1)

\* The active stores of the ordinals beyond the desired count.
StoresBeyond(st, old, new) ==
    {s \in DOMAIN st.stores :
        st.stores[s].podName \in new.replicas .. (old.replicas - 1)}

\* Shrink: the stores a removal request goes out for in this cycle.
ScaleRemovals(st, old, new) ==
    IF old.replicas > new.replicas
      THEN {s \in StoresBeyond(st, old, new) : st.stores[s].state # "Offline"}
      ELSE {}

\* Variant of Scale that grows to the desired count at once, failure records
\* or not.
ScaleAtOnce(st, old, new) ==
    CASE old.replicas > new.replicas ->
           [new EXCEPT !.replicas =
               IF \E s \in DOMAIN st.stores : st.stores[s].podName = old.replicas - 1
                 THEN old.replicas ELSE old.replicas - 1]
      [] OTHER -> new

\* Scale(tc, oldSet, newSet): the replica count the desired set gets: one step
\* up, or one step down once the last ordinal has no active store, else the
\* observed count.
Scale(st, old, new) ==
    CASE old.replicas < new.replicas ->
           [new EXCEPT !.replicas =
               IF ScaleOutBlocked(st, old, new) THEN old.replicas ELSE old.replicas + 1]
      [] old.replicas > new.replicas ->
           [new EXCEPT !.replicas =
               IF \E s \in DOMAIN st.stores : st.stores[s].podName = old.replicas - 1
                 THEN old.replicas ELSE old.replicas - 1]
      [] OTHER -> new

(* ------------------------------ upsert --------------------------------- *)
\* updateStatefulSet: an update is submitted when the observed spec differs
\* from the desired one.
SetDiffers(new, old) ==
    \/ new.replicas # old.replicas
    \/ new.partition # old.partition
    \/ new.template # old.template

\* What the platform does with a written set: pods beyond the replica count go,
\* new ordinals get a pod on the set's revision; existing pods keep theirs
\* until the StatefulSet controller rolls them.
PodsAfter(s) ==
    [i \in Ordinals |->
        IF i >= s.replicas THEN 0
        ELSE IF podRev[i] = 0 THEN s.template ELSE podRev[i]]


(* ------------------------------ the cycle ------------------------------ *)
\* A write the cycle submitted: the call, whether the API accepted it, its argument.
Write(op, ok, arg) == [op |-> op, ok |-> ok, arg |-> arg]

\* Sync returns (an error, the requeue signal, or nil).
Finish(res) == pc' = "done" /\ result' = res

\* Variant of PDIsAvailable that lets every cycle through; C1 fails under it.
PDIsAvailableAlways == TRUE

\* tc.PDIsAvailable(), the guard Sync opens with.
PDIsAvailable == pdAvailable

\* Sync, up to the lister's Get in syncStatefulSetForTikvCluster: not-ready
\* when PD is not available, an error when the lister fails with anything but
\* NotFound.
SyncStart ==
    /\ pc = "idle"
    /\ status0' = status
    /\ writes' = <<>>
    /\ newSet' = NoSet
    /\ IF ~PDIsAvailable
         THEN steps' = <<"Sync">> /\ oldSet' = NoSet /\ Finish("requeue")
         ELSE \E getErr \in BOOLEAN :
                /\ steps' = <<"Sync", "syncStatefulSetForTikvCluster">>
                /\ IF getErr THEN oldSet' = NoSet /\ Finish("error")
                             ELSE oldSet' = set /\ pc' = "status" /\ result' = "none"
    /\ UNCHANGED <<specVars, pdmVars, platVars, pd, status, now>>
    /\ UNCHANGED <<lastSync, failedCall, cm, setCount>>

\* The calls of syncTikvClusterStatus that can fail.
StatusFailures == {"none", "upgrading", "stores", "tombstone"}

\* syncTikvClusterStatus(tc, oldSet), called before the pause check.
StatusStep ==
    /\ pc = "status"
    /\ \E fail \in StatusFailures :
         /\ status' = syncTikvClusterStatus(status, oldSet, fail)
         /\ steps' = Append(steps, "syncTikvClusterStatus")
         /\ failedCall' = IF StatusSyncFails(oldSet, fail) THEN fail ELSE "none"
         /\ IF StatusSyncFails(oldSet, fail) THEN Finish("error")
                                          ELSE pc' = "pause" /\ result' = "none"
    /\ UNCHANGED <<specVars, pdmVars, platVars, pd, now, newSet, writes, status0, oldSet>>
    /\ UNCHANGED <<lastSync, cm, setCount>>

\* Variant of PauseTarget without the pause check; C3 fails under it.
PauseTargetIgnored == "config"

\* if tc.Spec.Paused: syncStatefulSetForTikvCluster returns nil and Sync goes
\* on to the services.
PauseTarget == IF paused THEN "services" ELSE "config"

PauseStep ==
    /\ pc = "pause"
    /\ steps' = Append(steps, "pauseCheck")
    /\ pc' = PauseTarget
    /\ UNCHANGED <<specVars, pdmVars, platVars, pd, status, now, newSet, writes, result, status0, oldSet>>
    /\ UNCHANGED <<lastSync, failedCall, cm, setCount>>

\* The outcomes of syncTiKVConfigMap when a config is declared.
ConfigOutcomes == {"ok", "synthErr", "writeErr"}

\* The write typedControl.CreateOrUpdateConfigMap submits for the observed object.
ConfigWrite(ok) ==
    CASE ConfigObserved = "absent" -> <<Write("createConfigMap", ok, ConfigMapName(oldSet))>>
      [] ConfigObserved = "stale"  -> <<Write("updateConfigMap", ok, ConfigMapName(oldSet))>>
      [] OTHER            -> <<>>

\* syncTiKVConfigMap: nothing without a declared config; else synthesize the
\* config map and create-or-update it.
ConfigStep ==
    /\ pc = "config"
    /\ steps' = Append(steps, "syncTiKVConfigMap")
    /\ IF ~hasConfig
         THEN /\ pc' = "recover" /\ result' = "none" /\ cm' = NoName
              /\ UNCHANGED <<cmObj, cmName, writes>>
         ELSE \E out \in ConfigOutcomes :
                CASE out = "ok" ->
                       /\ writes' = writes \o ConfigWrite(TRUE)
                       /\ cmObj' = "same"
                       /\ cmName' = ConfigMapName(oldSet)
                       /\ cm' = ConfigMapName(oldSet)
                       /\ pc' = "recover" /\ result' = "none"
                  [] out = "synthErr" ->
                       /\ UNCHANGED <<cmObj, cmName, writes>>
                       /\ cm' = NoName
                       /\ Finish("error")
                  [] OTHER ->
                       /\ writes' = writes \o ConfigWrite(FALSE)
                       /\ UNCHANGED <<cmObj, cmName>>
                       /\ cm' = NoName
                       /\ Finish("error")
    /\ UNCHANGED <<specVars, pdmVars, set, mounted, podRev, svc, svcHost, listDescending, pd, status, now, newSet, status0, oldSet>>
    /\ UNCHANGED <<lastSync, failedCall, setCount>>

\* Variant of RecoverStep that never drives the recovery; C8 fails under it.
RecoverStepSkipped ==
    /\ pc = "recover"
    /\ pc' = "synth"
    /\ UNCHANGED <<specVars, pdmVars, platVars, pd, status, now, newSet, steps, writes,
                   result, status0, oldSet>>
    /\ UNCHANGED <<lastSync, failedCall, cm, setCount>>

\* Recover failed stores, if any, before generating the desired set.
RecoverStep ==
    /\ pc = "recover"
    /\ IF Cardinality(DOMAIN status.failureStores) > 0
         THEN status' = Recover(status) /\ steps' = Append(steps, "Recover")
         ELSE UNCHANGED <<status, steps>>
    /\ pc' = "synth"
    /\ UNCHANGED <<specVars, pdmVars, platVars, pd, now, newSet, writes, result, status0, oldSet>>
    /\ UNCHANGED <<lastSync, failedCall, cm, setCount>>

\* getNewTiKVSetForTikvCluster: fails on an unparsable storage request.
SynthStep ==
    /\ pc = "synth"
    /\ steps' = Append(steps, "getNewTiKVSetForTikvCluster")
    /\ \E parseErr \in BOOLEAN :
         IF parseErr
           THEN UNCHANGED newSet /\ Finish("error")
           ELSE /\ newSet' = getNewTiKVSetForTikvCluster(status)
                /\ pc' = IF oldSet.exists THEN "labels" ELSE "create"
                /\ result' = "none"
    /\ UNCHANGED <<specVars, pdmVars, platVars, pd, status, now, writes, status0, oldSet>>
    /\ UNCHANGED <<lastSync, failedCall, cm, setCount>>

\* Variant of AfterCreate that falls through to the label propagation; C4
\* fails under it.
AfterCreateFallsThrough == "labels"

\* Where the cycle goes after a successful create: syncStatefulSetForTikvCluster
\* returns nil, so Sync goes on to the services.
AfterCreate == "services"

\* setNotExist: annotate, create, set the status mirror to the empty
\* placeholder and return nil.
CreateStep ==
    /\ pc = "create"
    /\ steps' = Append(steps, "CreateStatefulSet")
    /\ \E createErr \in BOOLEAN :
         /\ writes' = Append(writes, Write("createSet", ~createErr,
                                 [annotated |-> TRUE, replicas |-> newSet.replicas,
                                  partition |-> newSet.partition, template |-> newSet.template]))
         /\ IF createErr
              THEN UNCHANGED <<set, mounted, podRev, status>> /\ Finish("error")
              ELSE /\ set' = newSet
                   /\ mounted' = MountOf(cm)
                   /\ podRev' = PodsAfter(newSet)
                   /\ status' = [status EXCEPT !.statefulSet = EmptyMirror]
                   /\ pc' = AfterCreate /\ result' = "none"
    /\ UNCHANGED <<specVars, pdmVars, svc, svcHost, listDescending, cmObj, cmName, pd, now, newSet, status0, oldSet>>
    /\ UNCHANGED <<lastSync, failedCall, cm, setCount>>


\* The calls of setStoreLabelsForTiKV whose error it returns.
LabelFailures == {"none", "stores", "config", "pod"}

\* node.GetLabels(): every node but the bare one carries a zone and a hostname.
LabelHostname == "kubernetes.io/hostname"
NodeLabels(i) == IF i = bareNode THEN NoLabels ELSE [k \in {"zone", LabelHostname} |-> 1]

\* getNodeLabels: the node's values of the location-label keys, "host" taken
\* from the hostname label when the node has no label of that name.
getNodeLabels(i, keys) ==
    LET ls == NodeLabels(i)
        found == {k \in keys : k \in DOMAIN ls \/ (k = "host" /\ LabelHostname \in DOMAIN ls)}
    IN  [k \in found |-> IF k \in DOMAIN ls THEN ls[k] ELSE ls[LabelHostname]]

\* Variant of storeLabelsEqualNodeLabels that compares all the store's labels.
storeLabelsEqualAllLabels(storeLabels, nodeLabels) == storeLabels = nodeLabels

\* storeLabelsEqualNodeLabels: the store's labels under the node labels' keys
\* equal the node labels.
storeLabelsEqualNodeLabels(storeLabels, nodeLabels) ==
    LET ls == [k \in DOMAIN storeLabels \cap DOMAIN nodeLabels |-> storeLabels[k]]
    IN  ls = nodeLabels

\* pdCli.SetStoreLabels: PD records the pushed labels over those it has.
SetStoreLabels(old, ls) ==
    [k \in DOMAIN old \cup DOMAIN ls |-> IF k \in DOMAIN ls THEN ls[k] ELSE old[k]]

\* The owned, listed stores the loop of setStoreLabelsForTiKV visits; none
\* when PD has no location labels configured.
StoresVisited ==
    IF locationLabels = {} THEN {} ELSE {s \in GetStores : OwnedAddress(s)}

\* The visited stores whose node labels resolve and differ from the labels PD
\* has recorded: the stores a push goes out for.
StoresToLabel ==
    {s \in StoresVisited :
        LET ls == getNodeLabels(StoreOrd(s), locationLabels)
        IN  ls # NoLabels /\ ~storeLabelsEqualNodeLabels(pd[s].labels, ls)}

\* The pushes of one pass: PD records the labels of the accepted stores, and
\* the accepted pushes are counted.
LabelPushes(accepted, rejected) ==
    /\ pd' = [s \in AllStores |->
                IF s \in accepted
                  THEN [pd[s] EXCEPT !.labels =
                           SetStoreLabels(pd[s].labels, getNodeLabels(StoreOrd(s), locationLabels))]
                  ELSE pd[s]]
    /\ setCount' = Cardinality(accepted)
    /\ writes' = writes
                 \o (IF accepted = {} THEN <<>> ELSE <<Write("setStoreLabels", TRUE, accepted)>>)
                 \o (IF rejected = {} THEN <<>> ELSE <<Write("setStoreLabels", FALSE, rejected)>>)

\* setStoreLabelsForTiKV: push the node's location labels to every owned
\* store that does not carry them, in the order of the listing.  A node
\* without labels and a rejected push are skipped; an error of GetStores,
\* GetConfig or of the pod lookup of a visited store f is returned, after the
\* pushes for the stores listed before f.
\* The visited stores whose pod does not exist: their lookup fails.
PodMissing == {s \in StoresVisited : StoreOrd(s) \notin Pods}

LabelStep ==
    /\ pc = "labels"
    /\ steps' = Append(steps, "setStoreLabelsForTiKV")
    /\ \E fail \in LabelFailures :
       /\ failedCall' = fail
       /\ CASE fail \in {"stores", "config"} ->
                UNCHANGED <<pd, writes, setCount>> /\ Finish("error")
           [] fail = "pod" ->
                /\ StoresVisited # {}
                /\ \E f \in StoresVisited :
                       /\ \A m \in PodMissing : f <= m
                       /\ LET before == {s \in StoresToLabel : s < f}
                          IN  LabelPushes(before \ labelReject, before \cap labelReject)
                /\ Finish("error")
           [] OTHER ->
                /\ PodMissing = {}
                /\ LabelPushes(StoresToLabel \ labelReject, StoresToLabel \cap labelReject)
                /\ pc' = "upgrade" /\ result' = "none"
    /\ UNCHANGED <<specVars, pdmVars, platVars, status, now, newSet, status0, oldSet>>
    /\ UNCHANGED <<lastSync, cm>>

\* Variant of UpgradeGate that looks at the templates only.
UpgradeGateTemplateOnly == ~templateEqual(newSet, oldSet)

\* The upgrader is driven when the templates differ or the phase is Upgrade.
UpgradeGate == ~templateEqual(newSet, oldSet) \/ status.phase = UpgradePhase

\* Variant of AfterUpgrade that goes past the scaler.
AfterUpgradeSkipsScale == "failover"

\* Where the cycle goes after the upgrade gate: the scaler, in every cycle.
AfterUpgrade == "scale"

UpgradeStep ==
    /\ pc = "upgrade"
    /\ IF UpgradeGate
         THEN /\ steps' = Append(steps, "Upgrade")
              /\ \E err \in BOOLEAN :
                   IF err THEN UNCHANGED newSet /\ Finish("error")
                          ELSE /\ newSet' = Upgrade(status, oldSet, newSet)
                               /\ pc' = AfterUpgrade /\ result' = "none"
         ELSE /\ UNCHANGED <<steps, newSet>>
              /\ pc' = AfterUpgrade /\ result' = "none"
    /\ UNCHANGED <<specVars, pdmVars, platVars, pd, status, now, writes, status0, oldSet>>
    /\ UNCHANGED <<lastSync, failedCall, cm, setCount>>

\* tkmm.tikvScaler.Scale(tc, oldSet, newSet), driven in every cycle that gets
\* here; a removal request PD accepts takes the store out of service (Offline).
ScaleStep ==
    /\ pc = "scale"
    /\ steps' = Append(steps, "Scale")
    /\ \E err \in BOOLEAN, accepted \in BOOLEAN :
         IF err
           THEN UNCHANGED <<newSet, pd, writes>> /\ Finish("error")
           ELSE LET removals == ScaleRemovals(status, oldSet, newSet)
                IN  /\ newSet' = Scale(status, oldSet, newSet)
                    /\ writes' = IF removals = {} THEN writes
                                 ELSE Append(writes, Write("deleteStore", accepted, removals))
                    /\ pd' = [s \in AllStores |->
                                IF s \in removals /\ accepted
                                  THEN [pd[s] EXCEPT !.state = "Offline"] ELSE pd[s]]
                    /\ pc' = "failover" /\ result' = "none"
    /\ UNCHANGED <<specVars, pdmVars, platVars, status, now, status0, oldSet>>
    /\ UNCHANGED <<lastSync, failedCall, cm, setCount>>

\* Variant of FailoverGate that ignores the automatic-failover switch; C9
\* fails under it.
FailoverGateIgnoringSwitch ==
    /\ maxFailoverCount # -1
    /\ TiKVAllPodsStarted(status) /\ ~TiKVAllStoresReady(status)

\* Variant of FailoverGate that does not ask for a declared budget.
FailoverGateIgnoringBudget ==
    /\ autoFailover
    /\ TiKVAllPodsStarted(status) /\ ~TiKVAllStoresReady(status)

\* The failover detection path is driven when automatic failover is on, a
\* budget is declared, all pods have started and not all stores are ready.
FailoverGate ==
    /\ autoFailover /\ maxFailoverCount # -1
    /\ TiKVAllPodsStarted(status) /\ ~TiKVAllStoresReady(status)

FailoverStep ==
    /\ pc = "failover"
    /\ IF FailoverGate
         THEN /\ steps' = Append(steps, "Failover")
              /\ \E err \in BOOLEAN :
                   IF err THEN UNCHANGED status /\ Finish("error")
                          ELSE /\ \E chosen \in FailoverChoices(status) :
                                     status' = Failover(status, chosen)
                               /\ pc' = "update" /\ result' = "none"
         ELSE /\ UNCHANGED <<steps, status>>
              /\ pc' = "update" /\ result' = "none"
    /\ UNCHANGED <<specVars, pdmVars, platVars, pd, now, newSet, writes, status0, oldSet>>
    /\ UNCHANGED <<lastSync, failedCall, cm, setCount>>

\* updateStatefulSet(tkmm.setControl, tc, newSet, oldSet)
UpdateStep ==
    /\ pc = "update"
    /\ steps' = Append(steps, "updateStatefulSet")
    /\ IF SetDiffers(newSet, oldSet) \/ ~templateEqual(newSet, oldSet)
         THEN \E updErr \in BOOLEAN :
                /\ writes' = Append(writes, Write("updateSet", ~updErr,
                                 [annotated |-> TRUE, replicas |-> newSet.replicas,
                                  partition |-> newSet.partition, template |-> newSet.template]))
                /\ IF updErr
                     THEN UNCHANGED <<set, mounted, podRev>> /\ Finish("error")
                     ELSE /\ set' = newSet
                          /\ mounted' = MountOf(cm)
                          /\ podRev' = PodsAfter(newSet)
                          /\ pc' = "services" /\ result' = "none"
         ELSE /\ UNCHANGED <<set, mounted, podRev, writes>>
              /\ pc' = "services" /\ result' = "none"
    /\ UNCHANGED <<specVars, pdmVars, svc, svcHost, listDescending, cmObj, cmName, pd, status, now, newSet, status0, oldSet>>
    /\ UNCHANGED <<lastSync, failedCall, cm, setCount>>

(* ------------------------------ services ------------------------------- *)
\* svcList: one NodePort service per listed pod (by list index) when an
\* external listener is declared, then the peer service.
\* podLister.Pods(ns).List(selector): the pod at position k of the listing,
\* which the lister gives by ascending or by descending ordinal.
PodList(k) ==
    LET ps == Pods
        at == IF listDescending THEN Cardinality(ps) + 1 - k ELSE k
    IN  CHOOSE p \in ps : Cardinality({x \in ps : x < p}) = at - 1

\* The pod whose Status.HostIP the NodePort service built for list position n
\* carries as external IP (-1: the peer service, or no such position).
DesiredHost(n) == IF n \in 1 .. Cardinality(Pods) THEN PodList(n) ELSE -1

\* The observed service n against the desired one (ServiceEqual).
SvcObserved(n) ==
    IF svc[n] = "same" /\ svcHost[n] # DesiredHost(n) THEN "stale" ELSE svc[n]

SvcList ==
    [k \in 1 .. (IF extListener THEN Cardinality(Pods) ELSE 0) |-> k] \o <<PeerSvc>>

\* The object submitted for an absent service: the desired object, annotated
\* with its last applied configuration.
ServiceCreated(n) ==
    [name |-> n, annotated |-> TRUE, spec |-> "desired",
     clusterIP |-> "desired", meta |-> "desired"]

\* Variant of ServiceMerged that submits the desired object as it is, losing
\* the server-assigned cluster IP and the observed metadata.
ServiceReplaced(n) ==
    [name |-> n, annotated |-> TRUE, spec |-> "desired",
     clusterIP |-> "desired", meta |-> "desired"]

\* The object submitted for an unequal service: a copy of the observed object
\* whose spec is the desired one, annotated, with the observed cluster IP put
\* back.
ServiceMerged(n) ==
    [name |-> n, annotated |-> TRUE, spec |-> "desired",
     clusterIP |-> "observed", meta |-> "observed"]

\* Variant of ServiceWrite without the equality check: an observed service is
\* always updated; C13 and C14 fail under it.
ServiceWriteAlways(n, ok) ==
    LET observed == SvcObserved(n)
    IN  CASE paused -> <<>>
          [] observed = "absent" -> <<Write("createService", ok, ServiceCreated(n))>>
          [] OTHER -> <<Write("updateService", ok, ServiceMerged(n))>>

\* syncServiceForTikvCluster on one service: nothing when paused or when the
\* observed service equals the desired one, else a create or an update.
ServiceWrite(n, ok) ==
    LET observed == SvcObserved(n)
    IN  CASE paused -> <<>>
          [] observed = "absent" -> <<Write("createService", ok, ServiceCreated(n))>>
          [] observed = "stale"  -> <<Write("updateService", ok, ServiceMerged(n))>>
          [] OTHER -> <<>>

\* The writes of the loop over svcList[from..], which stops at the first
\* failing call; failAt is the list position whose call fails (0: none), by
\* its write (how = "write") or, before any write, by the lookup of the
\* observed service or the equality check (how = "read").
RECURSIVE ServiceWrites(_, _, _, _)
ServiceWrites(list, from, failAt, how) ==
    IF from > Len(list) THEN <<>>
    ELSE IF from = failAt /\ how = "read" /\ ~paused THEN <<>>
    ELSE LET w == ServiceWrite(list[from], from # failAt)
         IN  IF from = failAt /\ w # <<>> THEN w
             ELSE w \o ServiceWrites(list, from + 1, failAt, how)

\* Whether the loop over svcList stops at a failing lookup.
ServiceReadFails(list, failAt, how) ==
    how = "read" /\ ~paused /\ failAt \in 1 .. Len(list)

\* The rest of Sync: list the pods for the NodePort services (an error of the
\* pod lister is returned), then upsert every service of svcList in order.
\* The pods are listed only when an external listener is declared, and a call
\* can fail only at a position of svcList.
ServiceStep ==
    /\ pc = "services"
    /\ LET list == SvcList
       IN  \E listErr \in (IF extListener THEN BOOLEAN ELSE {FALSE}), failAt \in 0 .. Len(list), how \in {"write", "read"} :
             IF listErr
               THEN /\ steps' = Append(steps, "listPods")
                    /\ UNCHANGED <<svc, svcHost, writes>>
                    /\ Finish("error")
               ELSE LET ws == ServiceWrites(list, 1, failAt, how)
                        done == {ws[k].arg.name : k \in {j \in 1 .. Len(ws) : ws[j].ok}}
                        failed == \/ \E k \in 1 .. Len(ws) : ~ws[k].ok
                                  \/ ServiceReadFails(list, failAt, how)
                    IN  /\ steps' = steps \o (IF extListener THEN <<"listPods">> ELSE <<>>)
                                          \o <<"syncServiceForTikvCluster">>
                        /\ writes' = writes \o ws
                        /\ svc' = [n \in SvcNames |-> IF n \in done THEN "same" ELSE svc[n]]
                        /\ svcHost' = [n \in SvcNames |-> IF n \in done THEN DesiredHost(n) ELSE svcHost[n]]
                        /\ Finish(IF failed THEN "error" ELSE "ok")
    /\ UNCHANGED <<specVars, pdmVars, set, mounted, podRev, listDescending, cmObj, cmName, pd, status, now, newSet, status0, oldSet>>
    /\ UNCHANGED <<lastSync, failedCall, cm, setCount>>

\* Sync has returned; the controller persists tc.Status and the key leaves
\* the work queue.
\* What a returning cycle leaves in the history.
SyncOutcome ==
    IF result # "ok" THEN "changed"
    ELSE IF writes = <<>> /\ status.failureStores = status0.failureStores THEN "quiet"
    ELSE "ok"

SyncReturn ==
    /\ pc = "done"
    /\ pc' = "idle"
    /\ oldSet' = NoSet
    /\ newSet' = NoSet
    /\ steps' = <<>>
    /\ writes' = <<>>
    /\ result' = "none"
    /\ status0' = EmptyStatus
    /\ failedCall' = "none"
    /\ cm' = NoName
    /\ setCount' = 0
    /\ lastSync' = SyncOutcome
    /\ UNCHANGED <<specVars, pdmVars, platVars, pd, status, now>>

Cycle ==
    \/ SyncStart
    \/ StatusStep
    \/ PauseStep
    \/ ConfigStep
    \/ RecoverStep
    \/ SynthStep
    \/ CreateStep
    \/ LabelStep
    \/ UpgradeStep
    \/ ScaleStep
    \/ FailoverStep
    \/ UpdateStep
    \/ ServiceStep
    \/ SyncReturn


(* ---------------------------- environment ------------------------------ *)
\* The environment moves between cycles: the queue runs one Sync per cluster
\* key at a time and the cycle reads a snapshot.
Idle == pc = "idle"

\* The operator edits the declared replica count.
SetReplicas ==
    /\ Idle
    /\ \E r \in (1 .. MaxReplicas) \ {specReplicas} : specReplicas' = r
    /\ UNCHANGED <<paused, specTemplate, hasConfig, configStrategy, configContent, maxFailoverCount, extListener, autoFailover,
                   bareNode, labelReject, pdmVars, platVars, pd, status, now, cycleVars>>
    /\ lastSync' = "changed"

\* The operator pauses or resumes the cluster.
TogglePause ==
    /\ Idle
    /\ paused' = ~paused
    /\ UNCHANGED <<specReplicas, specTemplate, hasConfig, configStrategy, configContent, maxFailoverCount, extListener, autoFailover,
                   bareNode, labelReject, pdmVars, platVars, pd, status, now, cycleVars>>
    /\ lastSync' = "changed"

\* The operator edits the pod template (a new image).
SetTemplate ==
    /\ Idle
    /\ \E t \in (1 .. MaxTemplate) \ {specTemplate} : specTemplate' = t
    /\ UNCHANGED <<specReplicas, paused, hasConfig, configStrategy, configContent, maxFailoverCount, extListener, autoFailover,
                   bareNode, labelReject, pdmVars, platVars, pd, status, now, cycleVars>>
    /\ lastSync' = "changed"

\* The PD member manager sees PD come up or go away.
PDAvailability ==
    /\ Idle
    /\ pdAvailable' = ~pdAvailable
    /\ UNCHANGED <<specVars, pdPhase, locationLabels, platVars, pd, status, now, cycleVars>>
    /\ lastSync' = "changed"

\* The PD member manager starts or ends an upgrade of PD itself.
PDPhaseChange ==
    /\ Idle
    /\ pdPhase' = IF pdPhase = NormalPhase THEN UpgradePhase ELSE NormalPhase
    /\ UNCHANGED <<specVars, pdAvailable, locationLabels, platVars, pd, status, now, cycleVars>>
    /\ lastSync' = "changed"

\* The TiKV process of an existing pod registers its store with PD.
StoreRegister ==
    /\ Idle
    /\ \E s \in Stores :
         /\ StoreOrd(s) \in Pods
         /\ pd[s].state = "Absent"
         /\ pd' = [pd EXCEPT ![s] = [state |-> "Up", hb |-> 1, labels |-> NoLabels]]
    /\ UNCHANGED <<specVars, pdmVars, platVars, status, now, cycleVars>>
    /\ lastSync' = "changed"

\* PD stops hearing from a store, or hears from it again.
StoreFlap ==
    /\ Idle
    /\ \E s \in Stores :
         /\ pd[s].state \in {"Up", "Down"}
         /\ pd' = [pd EXCEPT ![s].state = IF pd[s].state = "Up" THEN "Down" ELSE "Up"]
    /\ UNCHANGED <<specVars, pdmVars, platVars, status, now, cycleVars>>
    /\ lastSync' = "changed"

\* A TiKV outside the cluster joins PD with an address of its own, and is
\* later taken out of service and buried.
ExternalStoreChange ==
    /\ Idle
    /\ pd[ExternalStore].state \in {"Absent", "Up"}
    /\ pd' = [pd EXCEPT ![ExternalStore] =
                 IF pd[ExternalStore].state = "Absent"
                   THEN [state |-> "Up", hb |-> 1, labels |-> NoLabels]
                   ELSE [pd[ExternalStore] EXCEPT !.state = "Tombstone"]]
    /\ UNCHANGED <<specVars, pdmVars, platVars, status, now, cycleVars>>
    /\ lastSync' = "changed"

\* PD has drained an Offline store and buries it.
StoreTombstone ==
    /\ Idle
    /\ \E s \in Stores :
         /\ pd[s].state = "Offline"
         /\ pd' = [pd EXCEPT ![s].state = "Tombstone"]
    /\ UNCHANGED <<specVars, pdmVars, platVars, status, now, cycleVars>>
    /\ lastSync' = "changed"

\* PD reports another heartbeat time for a store: a later one, or zero after
\* PD lost the store's heartbeat (a PD restart or leader change).
Heartbeat ==
    /\ Idle
    /\ \E s \in Stores, h \in 0 .. MaxHb :
         /\ pd[s].state # "Absent"
         /\ h # pd[s].hb
         /\ pd' = [pd EXCEPT ![s].hb = h]
    /\ UNCHANGED <<specVars, pdmVars, platVars, status, now, cycleVars>>
    /\ lastSync' = "changed"

\* The StatefulSet controller moves a pod at or above the partition to the
\* update revision.
PodRoll ==
    /\ Idle
    /\ set.exists
    /\ \E i \in Pods :
         /\ i >= set.partition
         /\ podRev[i] # set.template
         /\ podRev' = [podRev EXCEPT ![i] = set.template]
    /\ UNCHANGED <<specVars, pdmVars, set, mounted, svc, svcHost, listDescending, cmObj, cmName, pd, status, now, cycleVars>>
    /\ lastSync' = "changed"

\* Time passes.
Tick ==
    /\ Idle
    /\ now < MaxTime
    /\ now' = now + 1
    /\ UNCHANGED <<specVars, pdmVars, platVars, pd, status, cycleVars>>
    /\ lastSync' = "changed"

\* The controller process is lost during a cycle and starts again: what the
\* cycle held in memory is gone, the status it had amended but not yet
\* persisted included; the writes it had issued stay.
Restart ==
    /\ pc # "idle"
    /\ pc' = "idle"
    /\ status' = status0
    /\ oldSet' = NoSet
    /\ newSet' = NoSet
    /\ steps' = <<>>
    /\ writes' = <<>>
    /\ result' = "none"
    /\ status0' = EmptyStatus
    /\ failedCall' = "none"
    /\ cm' = NoName
    /\ setCount' = 0
    /\ lastSync' = "changed"
    /\ UNCHANGED <<specVars, pdmVars, platVars, pd, now>>

(* --------------------------- specifications ---------------------------- *)
\* A cluster object that has just been created: nothing of it exists yet.
InitObjects ==
    /\ set = NoSet
    /\ podRev = [i \in Ordinals |-> 0]
    /\ svc = [n \in SvcNames |-> "absent"]
    /\ svcHost = [n \in SvcNames |-> -1]
    /\ listDescending = FALSE
    /\ cmObj = "absent"
    /\ cmName = NoName
    /\ mounted = NoName
    /\ pd = [s \in AllStores |-> AbsentStore]
    /\ status = EmptyStatus
    /\ now = 1
    /\ failedCall = "none"
    /\ cm = NoName
    /\ setCount = 0
    /\ pc = "idle"
    /\ oldSet = NoSet
    /\ newSet = NoSet
    /\ steps = <<>>
    /\ writes = <<>>
    /\ result = "none"
    /\ status0 = EmptyStatus
    /\ lastSync = "changed"

\* The cluster objects a behaviour starts from: the sets give the declared
\* replicas, whether a config is declared, the failure budgets, whether a
\* NodePort listener is declared, and the manager's autoFailover flag.
InitCluster(R, C, F, L, A, P) ==
    /\ specReplicas \in R
    /\ paused = FALSE
    /\ specTemplate = 1
    /\ hasConfig \in C
    /\ configStrategy = InPlace
    /\ configContent = 1
    /\ maxFailoverCount \in F
    /\ extListener \in L
    /\ autoFailover \in A
    /\ pdAvailable \in P
    /\ pdPhase = NormalPhase
    /\ locationLabels = {"zone"}
    /\ InitObjects

\* All nodes carry location labels and PD accepts every label push.
InitFor(R, C, F, L, A, P) ==
    /\ InitCluster(R, C, F, L, A, P)
    /\ bareNode = -1
    /\ labelReject = {}

Init == InitFor(1 .. MaxReplicas, BOOLEAN, {-1, MaxFailover}, BOOLEAN, BOOLEAN, {FALSE})

Next ==
    \/ Cycle
    \/ SetReplicas
    \/ TogglePause
    \/ SetTemplate
    \/ PDAvailability
    \/ PDPhaseChange
    \/ StoreRegister
    \/ StoreFlap
    \/ StoreTombstone
    \/ Heartbeat
    \/ PodRoll
    \/ Tick

Spec == Init /\ [][Next]_vars

\* The StatefulSet is deleted from outside (its pods go with it); the stores
\* stay registered in PD.
SetDeleted ==
    /\ Idle
    /\ set.exists
    /\ set' = NoSet
    /\ mounted' = NoName
    /\ podRev' = [i \in Ordinals |-> 0]
    /\ UNCHANGED <<specVars, pdmVars, svc, svcHost, listDescending, cmObj, cmName, pd, status, now, cycleVars>>
    /\ lastSync' = "changed"

\* A service is edited from outside so that it no longer equals the desired
\* one, or is deleted from outside.
ServiceDrift ==
    /\ Idle
    /\ \E n \in SvcNames :
         /\ svc[n] # "absent"
         /\ \E v \in {"stale", "absent"} \ {svc[n]} :
              /\ svc' = [svc EXCEPT ![n] = v]
              /\ svcHost' = [svcHost EXCEPT ![n] = IF v = "absent" THEN -1 ELSE @]
    /\ UNCHANGED <<specVars, pdmVars, set, mounted, podRev, listDescending, cmObj, cmName, pd, status, now, cycleVars>>
    /\ lastSync' = "changed"

\* Bootstrap, pause and availability: the cluster comes up, is paused and
\* resumed, PD comes and goes, the workload may be deleted from outside.
InitBase == InitFor(1 .. MaxReplicas, BOOLEAN, {MaxFailover}, BOOLEAN, {TRUE}, {FALSE})
NextBase ==
    \/ Cycle
    \/ TogglePause
    \/ PDAvailability
    \/ SetReplicas
    \/ StoreRegister
    \/ SetDeleted
SpecBase == InitBase /\ [][NextBase]_vars

\* Scaling: the declared replicas change, stores register, fail, are drained;
\* the cluster may be paused meanwhile.
InitScale == InitFor(1 .. MaxReplicas, {FALSE}, {-1}, {FALSE}, {FALSE}, BOOLEAN)
NextScale ==
    \/ Cycle
    \/ SetReplicas
    \/ TogglePause
    \/ StoreRegister
    \/ StoreFlap
    \/ StoreTombstone
SpecScale == InitScale /\ [][NextScale]_vars

\* Rolling upgrade: the template changes, pods roll, stores flap, PD itself
\* may upgrade.
InitUpgrade == InitFor({MaxReplicas}, {FALSE}, {-1}, {FALSE}, {FALSE}, BOOLEAN)
NextUpgrade ==
    \/ Cycle
    \/ SetTemplate
    \/ PodRoll
    \/ StoreRegister
    \/ StoreFlap
    \/ PDPhaseChange
SpecUpgrade == InitUpgrade /\ [][NextUpgrade]_vars

\* Failover: stores go Down and come back while the clock runs.
InitFailover == InitFor({MaxReplicas}, {FALSE}, {-1, MaxFailover}, {FALSE}, BOOLEAN, {TRUE})
NextFailover ==
    \/ Cycle
    \/ TogglePause
    \/ StoreRegister
    \/ StoreFlap
    \/ Tick
SpecFailover == InitFailover /\ [][NextFailover]_vars

\* Pause: a one-replica cluster with failover on is paused and resumed while
\* its stores fail and recover.
InitPause == InitFor({1}, {TRUE}, {MaxFailover}, {TRUE}, {TRUE}, BOOLEAN)
NextPause ==
    \/ Cycle
    \/ TogglePause
    \/ StoreRegister
    \/ StoreFlap
    \/ Tick
SpecPause == InitPause /\ [][NextPause]_vars

\* Heartbeats: PD reports, loses and regains heartbeat times; stores are
\* drained and buried by scale-in.
InitHeartbeat == InitFor(1 .. MaxReplicas, {FALSE}, {-1}, {FALSE}, {FALSE}, BOOLEAN)
NextHeartbeat ==
    \/ Cycle
    \/ SetReplicas
    \/ StoreRegister
    \/ StoreTombstone
    \/ Heartbeat
SpecHeartbeat == InitHeartbeat /\ [][NextHeartbeat]_vars


\* Repeated calls: a declared config, NodePort listeners, template and replica
\* edits and roll-outs, with PD rejecting the label push of some store.
\* Services: the per-pod and peer services drift or disappear between cycles
\* of a cluster that is paused and resumed.
InitService == InitFor({1, MaxReplicas}, {FALSE}, {-1}, {TRUE}, {FALSE}, {TRUE})
NextService ==
    \/ Cycle
    \/ ServiceDrift
    \/ TogglePause
    \/ StoreRegister
SpecService == InitService /\ [][NextService]_vars

\* Labels: some node carries no location labels, PD rejects the label push of
\* some store, and lookups fail, while stores register and the template and
\* the replica count change.
InitLabels ==
    /\ InitCluster({MaxReplicas}, {FALSE}, {-1}, {FALSE}, {FALSE}, {TRUE})
    /\ bareNode \in {-1, 0}
    /\ labelReject \in {{}, {2}}
NextLabels ==
    \/ Cycle
    \/ StoreRegister
    \/ SetTemplate
    \/ SetReplicas
SpecLabels == InitLabels /\ [][NextLabels]_vars

\* Ownership: a store of another cluster joins PD and is buried, next to the
\* cluster's own stores, which register and are removed by scale-in.
InitOwnership == InitFor({MaxReplicas}, {FALSE}, {-1}, {FALSE}, {FALSE}, {TRUE})
NextOwnership ==
    \/ Cycle
    \/ StoreRegister
    \/ ExternalStoreChange
    \/ StoreTombstone
    \/ SetReplicas
SpecOwnership == InitOwnership /\ [][NextOwnership]_vars

\* Growth: a running cluster of r replicas on template 1 whose stores are all
\* registered and recorded, with no failure record or with one record left
\* for ordinal j: of a Down store of the workload when j < r, of a store
\* buried by an earlier scale-in when j >= r. The declared replica count then
\* changes while new stores register and removed ones are buried; the
\* workload may be deleted from outside and is then created anew.
RunningCluster(r, j) ==
    LET storeOf(s) ==
            IF StoreOrd(s) = j /\ j >= r THEN [state |-> "Tombstone", hb |-> 1, labels |-> ZoneLabels]
            ELSE IF StoreOrd(s) = j THEN [state |-> "Down", hb |-> 1, labels |-> ZoneLabels]
            ELSE IF StoreOrd(s) < r THEN [state |-> "Up", hb |-> 1, labels |-> ZoneLabels]
            ELSE AbsentStore
        recorded(s) == [podName |-> StoreOrd(s), state |-> storeOf(s).state, hb |-> 1, ltt |-> 1]
    IN  /\ set = [exists |-> TRUE, replicas |-> r, partition |-> r, template |-> 1]
        /\ podRev = [i \in Ordinals |-> IF i < r THEN 1 ELSE 0]
        /\ svc = [n \in SvcNames |-> IF n = PeerSvc THEN "same" ELSE "absent"]
        /\ svcHost = [n \in SvcNames |-> -1]
        /\ listDescending = FALSE
        /\ cmObj = "absent"
        /\ cmName = NoName
        /\ mounted = BaseName
        /\ pd = [s \in AllStores |-> IF s \in Stores THEN storeOf(s) ELSE AbsentStore]
        /\ status =
             [statefulSet |-> [nil |-> FALSE, replicas |-> r, updateRevision |-> 1],
              phase |-> NormalPhase, synced |-> TRUE,
              stores |-> [s \in {x \in Stores : StoreOrd(x) < r} |-> recorded(s)],
              tombstoneStores |-> [s \in {x \in Stores : StoreOrd(x) = j /\ j >= r} |-> recorded(s)],
              failureStores |-> [s \in {x \in Stores : StoreOrd(x) = j} |->
                                    [podName |-> j, createdAt |-> 1]]]
        /\ now = 1
        /\ failedCall = "none"
        /\ cm = NoName
        /\ setCount = 0
        /\ pc = "idle"
        /\ oldSet = NoSet
        /\ newSet = NoSet
        /\ steps = <<>>
        /\ writes = <<>>
        /\ result = "none"
        /\ status0 = EmptyStatus
        /\ lastSync = "changed"

InitGrow ==
    /\ specReplicas \in 1 .. MaxReplicas
    /\ paused = FALSE
    /\ specTemplate = 1
    /\ hasConfig = FALSE
    /\ configStrategy = InPlace
    /\ configContent = 1
    /\ maxFailoverCount = MaxFailover
    /\ extListener = FALSE
    /\ autoFailover = TRUE
    /\ pdAvailable = TRUE
    /\ pdPhase = NormalPhase
    /\ locationLabels = {"zone"}
    /\ bareNode = -1
    /\ labelReject = {}
    /\ \E r \in 1 .. MaxReplicas, j \in -1 .. (MaxOrd - 1) : RunningCluster(r, j)
NextGrow ==
    \/ Cycle
    \/ SetReplicas
    \/ StoreRegister
    \/ StoreTombstone
    \/ SetDeleted
SpecGrow == InitGrow /\ [][NextGrow]_vars

\* Restart: the controller is lost and restarted at any point of a cycle
\* while a rolling upgrade runs and PD itself may upgrade.
InitRestart == InitFor({MaxReplicas}, {FALSE}, {-1}, {FALSE}, {FALSE}, {TRUE})
NextRestart ==
    \/ Cycle
    \/ Restart
    \/ SetTemplate
    \/ PodRoll
    \/ StoreRegister
    \/ PDPhaseChange
SpecRestart == InitRestart /\ [][NextRestart]_vars

\* Repeat: a cluster with a config and NodePort services whose template and
\* replicas are edited while pods roll; PD rejects the label pushes for
\* store 1 and accepts those for the other stores.
InitRepeat ==
    /\ InitCluster({MaxReplicas}, {TRUE}, {-1}, {TRUE}, {FALSE}, {TRUE})
    /\ bareNode = -1
    /\ labelReject = {1}
NextRepeat ==
    \/ Cycle
    \/ SetTemplate
    \/ SetReplicas
    \/ StoreRegister
    \/ PodRoll
SpecRepeat == InitRepeat /\ [][NextRepeat]_vars

(* ------------------------------ claims --------------------------------- *)
\* What this cycle has run and written.
StepsRun == {steps[k] : k \in 1 .. Len(steps)}
LastStep == steps[Len(steps)]
WriteOps == {writes[k].op : k \in 1 .. Len(writes)}
IsSetCreate(w) == w.op = "createSet"
SetCreates == SelectSeq(writes, IsSetCreate)

\* The steps of the workload reconciliation past the create-if-absent branch.
OrchestrationSteps ==
    {"setStoreLabelsForTiKV", "Upgrade", "Scale", "Failover", "updateStatefulSet"}

\* C1: a Sync called while PD is not available returns the requeue signal and
\* has done nothing else: the status is as it was, no step that calls PD or the
\* platform has run, and no write was issued.
C1_NotReadyOnlyRequeues ==
    (pc = "done" /\ ~pdAvailable) =>
        /\ result = "requeue"
        /\ status = status0
        /\ steps = <<"Sync">>
        /\ writes = <<>>

\* A not-ready cycle of a running cluster with work pending.
C1_Witness ==
    /\ pc = "done" /\ ~pdAvailable /\ result = "requeue"
    /\ set.exists /\ DOMAIN status.stores # {}
    /\ specReplicas # set.replicas

\* The store mappings and the synced flag agree with what PD lists now.
StoreMappingFresh ==
    /\ status.synced
    /\ DOMAIN status.stores = {s \in Stores : pd[s].state \in {"Up", "Down", "Offline"}}
    /\ \A s \in DOMAIN status.stores : status.stores[s].state = pd[s].state
    /\ DOMAIN status.tombstoneStores = {s \in Stores : pd[s].state = "Tombstone"}

\* The workload mirror and the phase agree with the observed workload and pods.
MirrorFresh ==
    /\ status.statefulSet =
          [nil |-> FALSE, replicas |-> Cardinality(Pods), updateRevision |-> oldSet.template]
    /\ status.phase =
          IF (\E i \in Pods : podRev[i] # oldSet.template) /\ pdPhase # UpgradePhase
            THEN UpgradePhase ELSE NormalPhase

\* C2, as stated: whenever a cycle (with PD available) comes to the pause
\* check, the status has been refreshed from the store listings and the
\* observed workload, also when the workload does not exist yet.
C2_RefreshedUnconditionally ==
    pc = "pause" => StoreMappingFresh /\ (oldSet.exists => MirrorFresh)

\* C2, amended: with the workload observed, the status is refreshed before the
\* pause check, paused or not; without a workload the status sync is skipped
\* and the status reaches the pause check untouched.
C2_RefreshedWhenWorkloadExists ==
    pc = "pause" =>
        IF oldSet.exists THEN StoreMappingFresh /\ MirrorFresh
                         ELSE status = status0

\* A paused cycle whose status sync changed the status.
C2_Witness ==
    /\ pc = "pause" /\ paused /\ oldSet.exists
    /\ status # status0
    /\ DOMAIN status.tombstoneStores # {}

\* What a paused cycle leaves alone.
PausedFrame ==
    /\ writes = <<>>
    /\ StepsRun \cap (OrchestrationSteps \cup {"syncTiKVConfigMap", "Recover",
                        "getNewTiKVSetForTikvCluster", "CreateStatefulSet"}) = {}
    /\ status.failureStores = status0.failureStores

\* C3, as stated: a paused cycle that has refreshed the status writes nothing,
\* drives no controller, keeps the failure records and returns success.
C3_PausedReturnsSuccess ==
    (pc = "done" /\ paused /\ "pauseCheck" \in StepsRun) => PausedFrame /\ result = "ok"

\* C3, amended: a paused cycle writes nothing, drives no controller and keeps
\* the failure records; it returns success unless PD is unavailable (requeue)
\* or the workload read, the status refresh or the pod listing for the
\* NodePort services fails (that error).
C3_PausedOnlyRefreshes ==
    (pc = "done" /\ paused) =>
        /\ PausedFrame
        /\ CASE LastStep = "Sync" -> result = "requeue" /\ ~pdAvailable
             [] LastStep \in {"syncStatefulSetForTikvCluster", "syncTikvClusterStatus", "listPods"}
                  -> result = "error"
             [] LastStep = "syncServiceForTikvCluster" -> result = "ok"
             [] OTHER -> FALSE

\* A paused cycle that returned success although a record of a store that is
\* Up again waits for recovery and the services are not created.
C3_Witness ==
    /\ pc = "done" /\ paused /\ result = "ok"
    /\ \E s \in DOMAIN status.failureStores :
          s \in DOMAIN status.stores /\ status.stores[s].state = "Up"
    /\ status # status0

\* C4: in a cycle that finds no workload, is not paused and synthesizes the
\* desired workload, exactly one create is issued, annotated and with the
\* desired replica count; on success the status mirror is the empty
\* placeholder, on failure it is untouched and the error is returned; no label
\* propagation, upgrade, scale, failover detection or workload update runs.
C4_CreateIfAbsent ==
    (pc = "done" /\ "pauseCheck" \in StepsRun /\ ~oldSet.exists /\ ~paused /\ newSet.exists) =>
        /\ Len(SetCreates) = 1
        /\ SetCreates[1].arg.annotated
        /\ SetCreates[1].arg.replicas = TiKVStsDesiredReplicas(status)
        /\ StepsRun \cap OrchestrationSteps = {}
        /\ "updateSet" \notin WriteOps
        /\ IF SetCreates[1].ok
             THEN /\ status.statefulSet = EmptyMirror
                  /\ set.exists /\ set.replicas = TiKVStsDesiredReplicas(status)
             ELSE /\ status.statefulSet = status0.statefulSet
                  /\ ~set.exists
                  /\ result = "error"

\* The first cycle of a cluster of MaxReplicas replicas has created the workload.
C4_Witness ==
    /\ pc = "done" /\ ~oldSet.exists /\ ~paused
    /\ Len(SetCreates) = 1 /\ SetCreates[1].ok
    /\ set.exists /\ set.replicas = MaxReplicas
    /\ status.statefulSet = EmptyMirror

\* The stores PD counts among the active ones.
ActiveInPD == {s \in Stores : pd[s].state \in {"Up", "Down", "Offline"}}

\* C5 (Scale modelled from the specification): no ordinal at or beyond the
\* workload's replica count has a store PD still counts as active, and every
\* write that lowers the replica count past an ordinal finds that ordinal's
\* store, if it ever registered, buried by PD after a removal request.
C5_DrainBeforeRemove ==
    /\ [](set.exists => \A s \in ActiveInPD : StoreOrd(s) < set.replicas)
    /\ [][(set.exists /\ set'.exists /\ set'.replicas < set.replicas) =>
             \A s \in Stores :
                 StoreOrd(s) \in set'.replicas .. (set.replicas - 1) =>
                     pd[s].state \in {"Absent", "Tombstone"}]_vars

\* A shrink has been carried out: the last ordinal's store is buried and the
\* workload is one replica smaller than it was created with.
C5_Witness ==
    /\ pc = "done" /\ "updateSet" \in WriteOps
    /\ oldSet.exists /\ set.replicas < oldSet.replicas
    /\ \E s \in Stores : StoreOrd(s) = set.replicas /\ pd[s].state = "Tombstone"

\* A rolling update of the committed workload is in flight: some pod is not
\* on the workload's template yet.
UpgradeInFlight == set.exists /\ statefulSetIsUpgrading(set)

\* C6: while an upgrade is in flight, a committed write that keeps the
\* template never raises the partition, and never takes it below 0.
C6_MonotonicPartition ==
    [][(UpgradeInFlight /\ set'.exists /\ set'.template = set.template) =>
          /\ set'.partition <= set.partition
          /\ set'.partition >= 0]_vars

\* C7: while an upgrade is in flight, a committed write that keeps the
\* template lowers the partition p by at most one, lowers it only if no
\* ordinal is updated yet or the store of ordinal p is Up in the cycle's
\* status, and leaves p as it is while that store is not Up.
C7_HealthGatedStep ==
    [][(UpgradeInFlight /\ set'.exists /\ set'.template = set.template) =>
          /\ set'.partition >= set.partition - 1
          /\ set'.partition < set.partition =>
                (set.partition >= set.replicas \/ StoreUpAt(status, set.partition))
          /\ (set.partition < set.replicas /\ ~StoreUpAt(status, set.partition)) =>
                set'.partition = set.partition]_vars

\* Failure records the cycle added, removed and kept.
RecordsAdded == DOMAIN status.failureStores \ DOMAIN status0.failureStores
RecordsRemoved == DOMAIN status0.failureStores \ DOMAIN status.failureStores
RecordsKept == DOMAIN status.failureStores \cap DOMAIN status0.failureStores

\* The cycle's status shows store s Down for longer than the grace deadline.
DownPastGrace(s) ==
    /\ s \in DOMAIN status.stores
    /\ status.stores[s].state = "Down"
    /\ now > status.stores[s].ltt + Grace

\* The cycle's status shows store s Up.
ObservedUp(s) == s \in DOMAIN status.stores /\ status.stores[s].state = "Up"

\* The declared failure budget (none declared: no record may be made).
Budget == IF maxFailoverCount = -1 THEN 0 ELSE maxFailoverCount

\* C8, as stated (Failover and Recover modelled from the specification): at
\* the end of a successful cycle of an unpaused cluster with automatic failover
\* on and a budget declared, a store has a failure record if and only if it is
\* Down past the grace deadline.
C8_RecordIffDownPastGrace ==
    (pc = "done" /\ result = "ok" /\ ~paused /\ autoFailover /\ maxFailoverCount # -1) =>
        \A s \in Stores : s \in DOMAIN status.failureStores <=> DownPastGrace(s)

\* C8, amended: a cycle adds a record only in its detection step and only for
\* a store its status shows Down past the grace deadline; it removes a record
\* only in its recovery step and only for a store its status shows Up; the
\* other records are kept as they are; and a cycle that got past the recovery
\* step keeps no record of a store observed Up.
C8_RecordLifecycle ==
    pc = "done" =>
        /\ \A s \in RecordsAdded : DownPastGrace(s) /\ "Failover" \in StepsRun
        /\ \A s \in RecordsRemoved : ObservedUp(s) /\ "Recover" \in StepsRun
        /\ \A s \in RecordsKept : status.failureStores[s] = status0.failureStores[s]
        /\ "getNewTiKVSetForTikvCluster" \in StepsRun =>
               \A s \in DOMAIN status.failureStores : ~ObservedUp(s)

\* A recovery removed the record of a store that is Up again while another
\* store, Down past the deadline, has no record.
C8_Witness ==
    /\ pc = "done" /\ "Recover" \in StepsRun
    /\ RecordsRemoved # {}
    /\ \E s \in Stores : DownPastGrace(s) /\ s \notin DOMAIN status.failureStores

\* C9, as stated (Failover and Recover modelled from the specification): in a
\* successful cycle of an unpaused cluster with automatic failover on, a store
\* Down past the grace deadline with budget available has a record at the end.
C9_RecordInNextSync ==
    (pc = "done" /\ result = "ok" /\ ~paused /\ autoFailover) =>
        \A s \in Stores :
            (DownPastGrace(s) /\ Cardinality(DOMAIN status.failureStores) < Budget)
                => s \in DOMAIN status.failureStores

\* C9, amended: the records never exceed the budget; a record is added only
\* with automatic failover on and the cluster not paused, for a store Down
\* past the grace deadline that had none, below the budget; a cycle whose
\* detection step ran and succeeded leaves no store Down past the deadline
\* without a record unless the budget is used up; and a cycle that reached
\* the recovery step keeps no record of a store observed Up.
C9_FailoverDetection ==
    /\ Cardinality(DOMAIN status.failureStores) <= Budget
    /\ pc = "done" =>
        /\ \A s \in RecordsAdded :
              /\ DownPastGrace(s)
              /\ status.failureStores[s].createdAt = now
              /\ Cardinality(RecordsKept) < Budget
              /\ autoFailover /\ ~paused
        /\ ("Failover" \in StepsRun /\ "updateStatefulSet" \in StepsRun) =>
              \A s \in Stores :
                  DownPastGrace(s) =>
                      \/ s \in DOMAIN status.failureStores
                      \/ Cardinality(DOMAIN status.failureStores) = Budget
        /\ "Recover" \in StepsRun =>
              \A s \in DOMAIN status.failureStores : ~ObservedUp(s)

\* The detection step recorded a store Down past the deadline and used up the
\* budget.
C9_Witness ==
    /\ pc = "done" /\ "Failover" \in StepsRun
    /\ RecordsAdded # {}
    /\ Cardinality(DOMAIN status.failureStores) = MaxFailover

\* The last-heartbeat time the status st records for store s, in either
\* mapping (0: none recorded).
RecordedHeartbeat(st, s) ==
    IF s \in DOMAIN st.stores THEN st.stores[s].hb
    ELSE IF s \in DOMAIN st.tombstoneStores THEN st.tombstoneStores[s].hb
    ELSE 0

\* Store s has an entry in the status st.
Recorded(st, s) == s \in DOMAIN st.stores \cup DOMAIN st.tombstoneStores

\* C10: no step takes the recorded last-heartbeat time of a store from
\* non-empty to empty, whichever mapping lists the store afterwards.
C10_HeartbeatNonRegression ==
    [][\A s \in Stores :
          (RecordedHeartbeat(status, s) > 0 /\ Recorded(status', s)) =>
              RecordedHeartbeat(status', s) > 0]_vars

\* A status sync of an existing workload has just succeeded: status0 holds the
\* previous cycle's status, pd what the placement service reports.
StatusSynced == pc = "pause" /\ oldSet.exists

\* C11: after a status sync, an owned active store for which PD reports a
\* zero heartbeat and which the previous mapping holds carries the previous
\* mapping's heartbeat; a non-zero reported heartbeat is recorded as reported.
C11_HeartbeatCarryForward ==
    StatusSynced =>
        \A s \in DOMAIN status.stores :
            /\ (pd[s].hb = 0 /\ s \in DOMAIN status0.stores) =>
                   status.stores[s].hb = status0.stores[s].hb
            /\ pd[s].hb # 0 => status.stores[s].hb = pd[s].hb

\* PD reports a zero heartbeat for a store recorded with a non-zero one, and
\* the status keeps the recorded value.
C11_Witness ==
    /\ StatusSynced
    /\ \E s \in DOMAIN status.stores \cap DOMAIN status0.stores :
          /\ pd[s].hb = 0
          /\ status0.stores[s].hb > 0
          /\ status.stores[s].hb = status0.stores[s].hb

\* C12: after a status sync, a store in both the previous and the new mapping
\* with the same state keeps its last-transition time; a store whose state
\* differs or that is new to the mapping has the current time.
C12_TransitionTimeOnStateChange ==
    StatusSynced =>
        \A s \in DOMAIN status.stores :
            IF s \in DOMAIN status0.stores /\ status0.stores[s].state = status.stores[s].state
              THEN status.stores[s].ltt = status0.stores[s].ltt
              ELSE status.stores[s].ltt = now

\* One store kept an earlier transition time while another, whose state
\* changed, got the current time.
C12_Witness ==
    /\ StatusSynced
    /\ \E s \in DOMAIN status.stores \cap DOMAIN status0.stores :
          /\ status0.stores[s].state = status.stores[s].state
          /\ status.stores[s].ltt < now
    /\ \E s \in DOMAIN status.stores \cap DOMAIN status0.stores :
          /\ status0.stores[s].state # status.stores[s].state
          /\ status.stores[s].ltt = now

\* C13, as stated: a cycle that follows a successful one, with nothing moved
\* in between, issues no write.
C13_SecondCallWritesNothing ==
    (pc = "done" /\ lastSync \in {"ok", "quiet"}) => writes = <<>>

\* C13, amended: such a cycle creates or updates neither the config object nor
\* a service; what it may still issue is a workload update, a label push or a
\* store removal request; and it issues nothing at all when the call before
\* it issued no write and left the failure records as they were.
C13_RepeatedSync ==
    (pc = "done" /\ lastSync \in {"ok", "quiet"}) =>
        /\ WriteOps \subseteq {"updateSet", "setStoreLabels", "deleteStore"}
        /\ lastSync = "quiet" => writes = <<>>

\* A second call in a row returned success without a write, with a config
\* object, NodePort services and a workload in place.
C13_Witness ==
    /\ pc = "done" /\ lastSync = "quiet" /\ result = "ok"
    /\ hasConfig /\ extListener /\ cmObj = "same"
    /\ set.exists /\ DOMAIN status.stores # {}
    /\ \A n \in SvcNames : n <= Cardinality(Pods) => svc[n] = "same"

(* -------------------------------- C14 ---------------------------------- *)
\* The service calls about service n among the call records ws.
ServiceCalls(ws, n) ==
    SelectSeq(ws, LAMBDA w : w.op \in {"createService", "updateService"} /\ w.arg.name = n)

\* The services the loop of Sync visits.
ListedServices == {SvcList[k] : k \in 1 .. Len(SvcList)}

\* C14: service upsert. In the service loop of a non-paused cluster, a
\* service absent by name gets at most one call, a create of the desired
\* object carrying the last-applied-config annotation, and no update; a
\* service equal to the desired one gets no call at all; an unequal service
\* gets at most one call, an update whose spec is the desired one with the
\* observed cluster IP and the observed metadata; and when the loop ends
\* without error every listed service that was absent or unequal got its call.
C14_ServiceUpsert ==
    [][(pc = "services" /\ ~paused /\ pc' = "done") =>
          LET ws == SubSeq(writes', Len(writes) + 1, Len(writes'))
          IN  \A n \in SvcNames :
                LET calls == ServiceCalls(ws, n)
                IN  /\ Len(calls) <= 1
                    /\ svc[n] = "same" => calls = <<>>
                    /\ n \notin ListedServices => calls = <<>>
                    /\ (svc[n] = "absent" /\ calls # <<>>) =>
                          /\ calls[1].op = "createService"
                          /\ calls[1].arg.annotated
                          /\ calls[1].arg.spec = "desired"
                    /\ (svc[n] = "stale" /\ calls # <<>>) =>
                          /\ calls[1].op = "updateService"
                          /\ calls[1].arg.annotated
                          /\ calls[1].arg.spec = "desired"
                          /\ calls[1].arg.clusterIP = "observed"
                          /\ calls[1].arg.meta = "observed"
                    /\ (result' = "ok" /\ n \in ListedServices /\ svc[n] # "same") =>
                          calls # <<>>
      ]_vars

\* A cycle of a non-paused cluster with an external listener that ended
\* without error after creating one service, updating another and leaving a
\* third, equal one alone.
C14_Witness ==
    /\ pc = "done" /\ result = "ok" /\ ~paused /\ extListener
    /\ \E a, b, c \in SvcNames :
         /\ ServiceCalls(writes, a) # <<>> /\ ServiceCalls(writes, a)[1].op = "createService"
         /\ ServiceCalls(writes, b) # <<>> /\ ServiceCalls(writes, b)[1].op = "updateService"
         /\ c \in ListedServices /\ ServiceCalls(writes, c) = <<>>

(* -------------------------------- C15 ---------------------------------- *)
\* C15: label propagation is non-blocking. No cycle ends in label
\* propagation: a cycle that runs it goes on to the upgrade, scale and
\* workload update steps whatever fails inside it.
C15_LabelPropagationNonBlocking ==
    pc = "done" => LastStep # "setStoreLabelsForTiKV"

\* The per-store skips: a cycle that passes label propagation has pushed
\* labels for every visited, unlabelled store on a labelled node, the stores
\* listed after a node without labels or after a rejected push included.
C15_PerStoreSkips ==
    (pc = "upgrade" /\ LastStep = "setStoreLabelsForTiKV") =>
        \A s \in Stores :
            (OwnedAddress(s) /\ pd[s].state \in {"Up", "Down", "Offline"}
                /\ StoreOrd(s) # bareNode /\ s \notin labelReject) => pd[s].labels = ZoneLabels

(* -------------------------------- C16 ---------------------------------- *)
\* The stores named by the label pushes of the current cycle.
LabelPushed ==
    UNION {writes[k].arg : k \in {j \in 1 .. Len(writes) : writes[j].op = "setStoreLabels"}}

\* C16: ownership filtering. In every state the active store mapping and the
\* tombstone mapping of the status hold only stores of this cluster's address
\* pattern, and the store that joined from outside is in neither mapping, is
\* named by no label push and carries no labels set by the manager.
C16_OwnershipFiltering ==
    /\ DOMAIN status.stores \subseteq Stores
    /\ DOMAIN status.tombstoneStores \subseteq Stores
    /\ ExternalStore \notin LabelPushed
    /\ pd[ExternalStore].labels = NoLabels

\* A cycle has recorded own active and own buried stores and pushed labels
\* for an own store while PD listed the outside store as active.
C16_Witness ==
    /\ pc = "done" /\ result = "ok" /\ status.synced
    /\ pd[ExternalStore].state = "Up"
    /\ DOMAIN status.stores # {} /\ DOMAIN status.tombstoneStores # {}
    /\ LabelPushed # {}

\* A status sync has recorded own active and own buried stores while PD
\* listed the outside store as buried.
C16_BuriedOutside ==
    /\ pc = "pause" /\ oldSet.exists /\ status.synced
    /\ pd[ExternalStore].state = "Tombstone"
    /\ DOMAIN status.stores # {} /\ DOMAIN status.tombstoneStores # {}

(* -------------------------------- C17 ---------------------------------- *)
\* The cycle ended in status sync because a store listing could not be fetched.
ListingFailed ==
    /\ pc = "done" /\ LastStep = "syncTikvClusterStatus"
    /\ failedCall \in {"stores", "tombstone"}

\* C17 as stated: when the active or the tombstone listing cannot be fetched,
\* the synced flag is false, the two store mappings, the phase and the
\* workload status mirror are as they were before the cycle, and the cycle
\* has issued no write.
C17_FetchFailureLeavesStatus ==
    ListingFailed =>
        /\ ~status.synced
        /\ status.stores = status0.stores
        /\ status.tombstoneStores = status0.tombstoneStores
        /\ status.phase = status0.phase
        /\ status.statefulSet = status0.statefulSet
        /\ writes = <<>>

\* C17, amended: when the active or the tombstone listing cannot be fetched,
\* Sync returns an error, the synced flag is false, the two store mappings
\* and the failure records are as they were before the cycle, the cycle has
\* issued no write; the workload status mirror and the phase are the ones
\* this cycle's status sync computed before the fetch.
C17_FetchFailure ==
    ListingFailed =>
        /\ result = "error"
        /\ ~status.synced
        /\ status.stores = status0.stores
        /\ status.tombstoneStores = status0.tombstoneStores
        /\ status.failureStores = status0.failureStores
        /\ status.statefulSet = SetStatus(oldSet)
        /\ status.phase = SyncedPhase(tikvStatefulSetIsUpgrading(oldSet, status))
        /\ writes = <<>>

\* A tombstone listing failed in a cycle that began synced with recorded
\* stores and whose status sync had already changed the phase.
C17_Witness ==
    /\ ListingFailed /\ failedCall = "tombstone"
    /\ status0.synced /\ DOMAIN status0.stores # {}
    /\ status.phase # status0.phase
    /\ status.statefulSet # status0.statefulSet

(* -------------------------------- C18 ---------------------------------- *)
\* The cycle ended because synthesizing the desired workload failed.
SynthesisFailed ==
    pc = "done" /\ LastStep = "getNewTiKVSetForTikvCluster" /\ result = "error"

\* C18: a cycle that ends in a synthesis error has issued no create or update
\* of the config object, the workload object or a service, has pushed no store
\* labels and has left the failure records as they were.
C18_SynthesisErrorLeavesState ==
    SynthesisFailed =>
        /\ writes = <<>>
        /\ status.failureStores = status0.failureStores

\* The part of C18 about the failure records alone.
C18_FailureRecordsKept ==
    SynthesisFailed => status.failureStores = status0.failureStores

\* The part of C18 about the workload object, the services and the labels:
\* only the config object can have been written.
C18_OnlyConfigWritten ==
    SynthesisFailed =>
        /\ WriteOps \subseteq {"createConfigMap", "updateConfigMap"}
        /\ Len(writes) <= 1
        /\ set = oldSet

(* -------------------------------- C19 ---------------------------------- *)
\* The failure records that name an ordinal between the observed count r and
\* the desired count d.
RecordsInRange(st, r, d) ==
    {f \in DOMAIN st.failureStores : st.failureStores[f].podName \in r .. (d - 1)}

\* C19: scale-out. Whenever the replica count of the existing workload is
\* raised, it is raised by exactly one, to a count not above the desired one
\* (declared replicas plus one spare per failure record), in a cycle that
\* found the observed count below the desired one and no failure record for
\* an ordinal of the range being added; and a cycle that ends without error,
\* found the observed count below the desired one and no failure record
\* before or after, has raised the count by one.
C19_ScaleOut ==
    /\ (pc = "done" /\ oldSet.exists /\ set.exists /\ set.replicas > oldSet.replicas) =>
          /\ set.replicas = oldSet.replicas + 1
          /\ set.replicas <= TiKVStsDesiredReplicas(status)
          /\ RecordsInRange(status, oldSet.replicas, TiKVStsDesiredReplicas(status)) = {}
    /\ (pc = "done" /\ result = "ok" /\ ~paused /\ oldSet.exists
          /\ DOMAIN status0.failureStores = {} /\ DOMAIN status.failureStores = {}
          /\ oldSet.replicas < specReplicas) =>
          set.replicas = oldSet.replicas + 1

\* A cycle raised the replica count by one while the desired count was two
\* above the observed one.
C19_Witness ==
    /\ pc = "done" /\ result = "ok" /\ oldSet.exists
    /\ set.replicas = oldSet.replicas + 1
    /\ TiKVStsDesiredReplicas(status) >= oldSet.replicas + 2

\* A cycle held the replica count back because a failure record names an
\* ordinal of the range to add.
C19_HeldBack ==
    /\ pc = "done" /\ result = "ok" /\ oldSet.exists /\ ~paused
    /\ oldSet.replicas < TiKVStsDesiredReplicas(status0)
    /\ RecordsInRange(status0, oldSet.replicas, TiKVStsDesiredReplicas(status0)) # {}
    /\ set.replicas = oldSet.replicas

(* -------------------------------- C20 ---------------------------------- *)
\* The cycle found a rolling update of the observed workload in flight and
\* the declared template unchanged.
ResumedUpgrade ==
    /\ pc = "done" /\ oldSet.exists /\ set.exists
    /\ oldSet.template = specTemplate
    /\ \E i \in Pods : i < oldSet.replicas /\ podRev[i] # oldSet.template
    /\ set.template = oldSet.template

\* C20: crash-resume of an upgrade. A cycle that finds an upgrade in flight,
\* whether or not the controller was restarted before it, continues from the
\* partition committed in the workload object: it leaves the workload at that
\* partition or one ordinal below it, and does not start over.
C20_UpgradeResumesFromCommitted ==
    ResumedUpgrade => set.partition \in {oldSet.partition - 1, oldSet.partition}

\* Between cycles the reconciler holds nothing of the previous cycle.
C20_NothingKeptBetweenCycles ==
    pc = "idle" =>
        /\ oldSet = NoSet /\ newSet = NoSet
        /\ steps = <<>> /\ writes = <<>>
        /\ result = "none" /\ failedCall = "none"

(* -------------------------------- C21 ---------------------------------- *)
\* The desired workload has just been synthesized.
Synthesized ==
    pc \in {"labels", "create"} /\ LastStep = "getNewTiKVSetForTikvCluster"

\* C21 as stated: outside a scale-in in flight, the synthesized replica count
\* is the declared one, failure records or not.
C21_ReplicasAsDeclared ==
    (Synthesized /\ ~(oldSet.exists /\ oldSet.replicas > specReplicas)) =>
        newSet.replicas = specReplicas

\* C21, amended: the synthesized replica count is the declared count plus one
\* per failure record held after recovery, the synthesized partition is that
\* same count, hence within [0, replicas]; and the count the scale step
\* leaves lies between the observed and the synthesized one.
C21_DesiredShape ==
    /\ Synthesized =>
          /\ newSet.replicas = specReplicas + Cardinality(DOMAIN status.failureStores)
          /\ newSet.partition = newSet.replicas
          /\ newSet.partition \in 0 .. newSet.replicas
    /\ (pc = "failover" /\ LastStep = "Scale") =>
          LET d == specReplicas + Cardinality(DOMAIN status.failureStores)
          IN  /\ newSet.replicas >= Min(oldSet.replicas, d)
              /\ newSet.replicas <= Max(oldSet.replicas, d)

\* A workload synthesized with a spare replica for a failure record.
C21_Witness ==
    /\ Synthesized /\ oldSet.exists
    /\ DOMAIN status.failureStores # {}
    /\ newSet.replicas = specReplicas + 1
    /\ oldSet.replicas <= specReplicas

\* The scale step has left a partition above the replica count.
C21_PartitionAboveReplicas ==
    pc = "failover" /\ LastStep = "Scale" /\ newSet.partition > newSet.replicas

(* ------------------------- config map naming --------------------------- *)
\* The operator edits the TiKV config: the stored config map, if it matched,
\* no longer equals the desired one.
SetConfigContent ==
    /\ Idle
    /\ hasConfig
    /\ \E c \in (1 .. MaxConfig) \ {configContent} : configContent' = c
    /\ cmObj' = IF cmObj = "same" THEN "stale" ELSE cmObj
    /\ UNCHANGED <<specReplicas, paused, specTemplate, hasConfig, configStrategy, maxFailoverCount,
                   extListener, autoFailover, bareNode, labelReject>>
    /\ UNCHANGED <<pdmVars, set, mounted, podRev, svc, svcHost, listDescending, cmName, pd, status, now, cycleVars>>
    /\ lastSync' = "changed"

\* The operator switches the config update strategy.
SetConfigStrategy ==
    /\ Idle
    /\ configStrategy' = IF configStrategy = InPlace THEN RollingUpdate ELSE InPlace
    /\ UNCHANGED <<specReplicas, paused, specTemplate, hasConfig, configContent, maxFailoverCount,
                   extListener, autoFailover, bareNode, labelReject>>
    /\ UNCHANGED <<pdmVars, platVars, pd, status, now, cycleVars>>
    /\ lastSync' = "changed"

\* A cluster with a TiKV config under either strategy, whose config and
\* strategy are edited and whose workload is deleted between cycles.
InitConfig ==
    /\ specReplicas = 1
    /\ paused = FALSE
    /\ specTemplate = 1
    /\ hasConfig = TRUE
    /\ configStrategy \in {InPlace, RollingUpdate}
    /\ configContent \in 1 .. MaxConfig
    /\ maxFailoverCount = -1
    /\ extListener = FALSE
    /\ autoFailover = FALSE
    /\ pdAvailable = TRUE
    /\ pdPhase = NormalPhase
    /\ locationLabels = {"zone"}
    /\ bareNode = -1
    /\ labelReject = {}
    /\ InitObjects
NextConfig ==
    \/ Cycle
    \/ SetConfigContent
    \/ SetConfigStrategy
    \/ StoreRegister
    \/ SetDeleted
SpecConfig == InitConfig /\ [][NextConfig]_vars

\* The config step of this cycle has just upserted a config map named cm.
ConfigUpserted == pc = "recover" /\ cm # NoName

\* The observed workload mounts a config map of this cluster.
MountsClusterConfig == oldSet.exists /\ (mounted = 1 \/ mounted \div 10 = 1)

\* C22 (as stated): under InPlace with a workload that mounts a config map of
\* this cluster the upserted config map takes the mounted name; in every other
\* case its name carries the digest of its content.
C22_ConfigNaming ==
    ConfigUpserted =>
        IF configStrategy = "InPlace" /\ MountsClusterConfig
          THEN cm = mounted
          ELSE cm = 1 * 10 + configContent

\* C22 (amended): under RollingUpdate the upserted config map is named by the
\* member name plus the digest of its content; under InPlace it takes the name
\* the observed workload mounts, and the plain member name when there is no
\* workload; under InPlace with a workload the desired pod template mounts
\* what the observed one mounts.
C22_NamingByStrategy ==
    ConfigUpserted =>
        /\ configStrategy = "RollingUpdate" => cm = 1 * 10 + configContent
        /\ (configStrategy = "InPlace" /\ MountsClusterConfig) =>
               cm = mounted /\ (IF cm = 0 THEN 1 ELSE cm) = mounted
        /\ (configStrategy = "InPlace" /\ ~MountsClusterConfig) => cm = 1

\* Under InPlace the workload mounts a config map named after other content
\* than the present one, and that name is kept.
C22_Witness ==
    /\ ConfigUpserted /\ configStrategy = "InPlace" /\ oldSet.exists
    /\ mounted \div 10 = 1 /\ mounted # 10 + configContent
    /\ cm = mounted

\* Under InPlace without a workload the config map gets the plain member name.
C22_PlainName ==
    ConfigUpserted /\ configStrategy = "InPlace" /\ ~oldSet.exists /\ cm = 1

\* Under RollingUpdate a workload's mounted name is replaced by a digest name.
C22_Renamed ==
    /\ ConfigUpserted /\ configStrategy = "RollingUpdate" /\ oldSet.exists
    /\ cm = 10 + configContent /\ cm # mounted

(* -------------------------------- C23 ---------------------------------- *)
\* A one-replica cluster with a config and failover on, whose template is
\* edited and whose store fails and recovers between cycles.
InitOrder == InitFor({1}, {TRUE}, {MaxFailover}, {FALSE}, {TRUE}, {TRUE})
NextOrder ==
    \/ Cycle
    \/ SetTemplate
    \/ StoreRegister
    \/ StoreFlap
    \/ Tick
SpecOrder == InitOrder /\ [][NextOrder]_vars

\* The calls of a cycle in the order the claim gives them.
ClaimedOrder ==
    <<"Sync", "syncStatefulSetForTikvCluster", "syncTikvClusterStatus", "pauseCheck",
      "syncTiKVConfigMap", "Recover", "getNewTiKVSetForTikvCluster", "setStoreLabelsForTiKV",
      "Upgrade", "Scale", "Failover", "updateStatefulSet", "listPods",
      "syncServiceForTikvCluster">>
Rank(s) == CHOOSE i \in 1 .. Len(ClaimedOrder) : ClaimedOrder[i] = s
StepSet == {steps[k] : k \in 1 .. Len(steps)}

\* A finished cycle of a non-paused cluster that found its workload.
OrderedCycle == pc = "done" /\ ~paused /\ oldSet.exists /\ "pauseCheck" \in StepSet

\* C23: step order and short-circuit. In a non-paused cycle with an existing
\* workload the calls are made in the order status sync, config upsert,
\* recovery, synthesis, label propagation, upgrade, scale, failover detection,
\* workload upsert, services, each at most once; scale is called in every
\* cycle in which label propagation and upgrade (if driven) returned no
\* error; the cycle that ends in an error made no call after the failing one,
\* so a failed label, upgrade, scale or failover step leaves the workload and
\* the services unwritten; and services are synced only after the workload
\* upsert was called and accepted.
C23_StepOrder ==
    OrderedCycle =>
        /\ StepSet \subseteq {ClaimedOrder[i] : i \in 1 .. Len(ClaimedOrder)}
        /\ \A i, j \in 1 .. Len(steps) : i < j => Rank(steps[i]) < Rank(steps[j])
        /\ "syncTiKVConfigMap" \in StepSet =>
              "syncTikvClusterStatus" \in StepSet
        /\ "setStoreLabelsForTiKV" \in StepSet =>
              {"syncTiKVConfigMap", "getNewTiKVSetForTikvCluster"} \subseteq StepSet
        /\ "setStoreLabelsForTiKV" \in StepSet =>
              ("Scale" \in StepSet <=>
                  ~(result = "error" /\ LastStep \in {"setStoreLabelsForTiKV", "Upgrade"}))
        /\ "updateStatefulSet" \in StepSet =>
              /\ {"setStoreLabelsForTiKV", "Scale"} \subseteq StepSet
              /\ "CreateStatefulSet" \notin StepSet
        /\ (result = "error" /\ LastStep \in {"setStoreLabelsForTiKV", "Upgrade", "Scale", "Failover"}) =>
              /\ WriteOps \cap {"updateSet", "createSet", "createService", "updateService"} = {}
              /\ set = oldSet
              /\ StepSet \cap {"updateStatefulSet", "listPods", "syncServiceForTikvCluster"} = {}
        /\ StepSet \cap {"listPods", "syncServiceForTikvCluster"} # {} =>
              /\ {"syncTikvClusterStatus", "syncTiKVConfigMap", "getNewTiKVSetForTikvCluster",
                   "setStoreLabelsForTiKV", "Scale", "updateStatefulSet"} \subseteq StepSet
              /\ \A k \in 1 .. Len(writes) : writes[k].op = "updateSet" => writes[k].ok

\* A cycle that drove upgrade, scale and failover detection, wrote the
\* workload and then synced the services.
C23_Witness ==
    /\ OrderedCycle /\ result = "ok"
    /\ {"Recover", "Upgrade", "Scale", "Failover", "updateStatefulSet", "syncServiceForTikvCluster"} \subseteq StepSet
    /\ "updateSet" \in WriteOps

\* A cycle whose failover detection failed: no workload write, no service call.
C23_FailedFailover ==
    /\ OrderedCycle /\ result = "error" /\ LastStep = "Failover"
    /\ newSet # oldSet /\ set = oldSet /\ "updateSet" \notin WriteOps

(* -------------------------------- C24 ---------------------------------- *)
\* C24: the upgrade gate. The step after label propagation calls the upgrader
\* if and only if the desired pod template differs from the observed one or
\* the status phase is Upgrade, and between the status sync and that step the
\* phase is not touched, so it is the phase this cycle's status sync computed.
C24_UpgradeGate ==
    [][/\ pc = "upgrade" =>
            (("Upgrade" \in {steps'[k] : k \in 1 .. Len(steps')}) <=>
                \/ specTemplate # oldSet.template
                \/ (IF cm = 0 THEN 1 ELSE cm) # mounted
                \/ status.phase = "Upgrade")
       /\ pc \in {"pause", "config", "recover", "synth", "labels", "upgrade"} =>
            status'.phase = status.phase]_vars

\* The upgrader was driven with equal templates because the phase is Upgrade.
C24_Witness ==
    /\ pc = "scale" /\ LastStep = "Upgrade"
    /\ specTemplate = oldSet.template /\ status.phase = "Upgrade"

\* The upgrader was driven by a template change in phase Normal.
C24_TemplateChange ==
    /\ pc = "scale" /\ LastStep = "Upgrade"
    /\ specTemplate # oldSet.template /\ status.phase = "Normal"

\* Equal templates and phase Normal: the upgrader is passed over.
C24_NotDriven ==
    /\ pc = "scale" /\ "Upgrade" \notin StepSet
    /\ specTemplate = oldSet.template /\ status.phase = "Normal"

(* -------------------------------- C25 ---------------------------------- *)
\* The four conditions of the detection path, on the cycle's status.
FourConditions ==
    /\ autoFailover
    /\ maxFailoverCount # -1
    /\ specReplicas + Cardinality(DOMAIN status.failureStores) = status.statefulSet.replicas
    /\ ~(/\ specReplicas + Cardinality(DOMAIN status.failureStores) = Cardinality(DOMAIN status.stores)
          /\ \A s \in DOMAIN status.stores : status.stores[s].state = "Up")

\* C25: the failover gate. The step after the scaler calls the detection
\* path if and only if automatic failover is on, a budget is declared, all
\* replicas have started and not all stores are ready; when one of the four
\* is false the step leaves the failure records alone, and a cycle that did
\* not call the detection path ends with no failure record it did not start with.
C25_FailoverGate ==
    [][/\ pc = "failover" =>
            /\ ("Failover" \in {steps'[k] : k \in 1 .. Len(steps')}) <=> FourConditions
            /\ ~FourConditions => status'.failureStores = status.failureStores
       /\ (pc' = "done" /\ "Failover" \notin {steps'[k] : k \in 1 .. Len(steps')}) =>
            DOMAIN status'.failureStores \subseteq DOMAIN status0'.failureStores]_vars

\* With the switch off a cycle ran to its end without error and left a store
\* that is Down past the grace deadline without a record.
C25_Witness ==
    /\ pc = "done" /\ result = "ok" /\ ~autoFailover /\ maxFailoverCount # -1
    /\ "updateStatefulSet" \in StepsRun /\ "Failover" \notin StepsRun
    /\ \E s \in Stores : DownPastGrace(s) /\ s \notin DOMAIN status.failureStores

\* All four conditions hold: the detection path ran and made a record.
C25_Driven ==
    pc = "update" /\ LastStep = "Failover" /\ RecordsAdded # {}

\* Not all replicas have started: the detection path is passed over.
C25_NotStarted ==
    /\ pc = "update" /\ LastStep = "Scale" /\ autoFailover /\ maxFailoverCount # -1
    /\ specReplicas + Cardinality(DOMAIN status.failureStores) # status.statefulSet.replicas

(* -------------------------------- C26 ---------------------------------- *)
\* C26: recovery precedes synthesis. The step after the config upsert calls
\* the recovery if and only if the status holds a failure record, before the
\* desired workload is synthesized; the recovery keeps exactly the records of
\* stores not observed Up; and the synthesis that follows counts the records
\* that are left.
C26_RecoveryBeforeSynthesis ==
    [][/\ pc = "recover" =>
            /\ ("Recover" \in {steps'[k] : k \in 1 .. Len(steps')}) <=> DOMAIN status.failureStores # {}
            /\ "getNewTiKVSetForTikvCluster" \notin {steps'[k] : k \in 1 .. Len(steps')}
            /\ DOMAIN status'.failureStores =
                  {s \in DOMAIN status.failureStores :
                      ~(s \in DOMAIN status.stores /\ status.stores[s].state = "Up")}
            /\ pc' = "synth"
       /\ (pc = "synth" /\ pc' # "done") =>
            /\ status'.failureStores = status.failureStores
            /\ newSet'.replicas = specReplicas + Cardinality(DOMAIN status.failureStores)]_vars

\* The recovery removed a record and the synthesis counted what was left.
C26_Witness ==
    /\ pc = "labels" /\ LastStep = "getNewTiKVSetForTikvCluster" /\ "Recover" \in StepsRun
    /\ RecordsRemoved # {}
    /\ newSet.replicas = specReplicas + Cardinality(DOMAIN status.failureStores)
    /\ newSet.replicas < specReplicas + Cardinality(DOMAIN status0.failureStores)

\* Without a failure record the synthesis follows the config upsert directly.
C26_NotInvoked ==
    /\ pc = "labels" /\ LastStep = "getNewTiKVSetForTikvCluster" /\ "Recover" \notin StepsRun
    /\ DOMAIN status.failureStores = {}

(* -------------------------------- C27 ---------------------------------- *)
\* Somebody sets a store's labels through PD's API or the store's own config.
StoreRelabel ==
    /\ Idle
    /\ \E s \in Stores :
         /\ pd[s].state = "Up"
         /\ \E ls \in {NoLabels, [k \in {"zone"} |-> 2], [k \in {"zone", "rack"} |-> 1]} :
                /\ ls # pd[s].labels
                /\ pd' = [pd EXCEPT ![s].labels = ls]
    /\ UNCHANGED <<specVars, pdmVars, platVars, status, now, cycleVars>>
    /\ lastSync' = "changed"

\* Label propagation: a two-replica cluster against a PD with no location
\* labels, with zone and rack, or with host; one node may be bare and one
\* store's pushes may be rejected; store labels are edited between cycles.
InitPush ==
    /\ specReplicas = 2
    /\ paused = FALSE
    /\ specTemplate = 1
    /\ hasConfig = FALSE
    /\ configStrategy = InPlace
    /\ configContent = 1
    /\ maxFailoverCount = -1
    /\ extListener = FALSE
    /\ autoFailover = FALSE
    /\ pdAvailable = TRUE
    /\ pdPhase = NormalPhase
    /\ locationLabels \in {{}, {"zone", "rack"}, {"host"}}
    /\ bareNode \in {-1, 0}
    /\ labelReject \in {{}, {2}}
    /\ InitObjects
NextPush ==
    \/ Cycle
    \/ StoreRegister
    \/ StoreRelabel
SpecPush == InitPush /\ [][NextPush]_vars

\* The labels the node of store s resolves to over the configured keys: its
\* zone, and its hostname under the key host; none on the bare node.
ResolvedLabels(s) ==
    IF s - 1 = bareNode THEN [k \in {} |-> 0]
    ELSE [k \in locationLabels \cap {"zone", "host"} |-> 1]

\* The labels PD has for store s differ from the resolved ones on their keys.
LabelsDiffer(s) ==
    \E k \in DOMAIN ResolvedLabels(s) :
        k \notin DOMAIN pd[s].labels \/ pd[s].labels[k] # ResolvedLabels(s)[k]

\* The stores of this cluster PD lists as active.
OwnedListed == {s \in Stores : pd[s].state \in {"Up", "Down", "Offline"}}

\* C27: label push only on difference. A pass of the label propagation that
\* returns no error pushes labels for an owned store if and only if its node
\* resolves to labels over the configured keys and these differ from the
\* store's recorded labels under the same keys; a pass cut short by an error
\* has pushed only for such stores; with no location labels configured there
\* is no push; the count returned is the number of accepted pushes; and PD
\* then has the resolved labels for the accepted stores and unchanged labels
\* for all others.
C27_PushOnDifference ==
    [][pc = "labels" =>
          LET new == SubSeq(writes', Len(writes) + 1, Len(writes'))
              pushed == UNION {new[k].arg : k \in 1 .. Len(new)}
              taken == UNION {new[k].arg : k \in {j \in 1 .. Len(new) : new[j].ok}}
          IN  /\ \A k \in 1 .. Len(new) : new[k].op = "setStoreLabels"
              /\ pc' = "upgrade" =>
                    \A s \in OwnedListed :
                        s \in pushed <=> (DOMAIN ResolvedLabels(s) # {} /\ LabelsDiffer(s))
              /\ \A s \in pushed :
                    s \in OwnedListed /\ DOMAIN ResolvedLabels(s) # {} /\ LabelsDiffer(s)
              /\ locationLabels = {} => pushed = {}
              /\ setCount' = Cardinality(taken)
              /\ \A s \in AllStores :
                    IF s \in taken
                      THEN \A k \in DOMAIN ResolvedLabels(s) :
                               k \in DOMAIN pd'[s].labels /\ pd'[s].labels[k] = ResolvedLabels(s)[k]
                      ELSE pd'[s] = pd[s]]_vars

\* One store got a push, another, whose labels equal the node's on the
\* node's keys and carry a further key, got none.
C27_Witness ==
    /\ pc = "upgrade" /\ LastStep = "setStoreLabelsForTiKV" /\ locationLabels = {"zone", "rack"}
    /\ \E s, u \in OwnedListed :
          /\ s \in LabelPushed /\ u \notin LabelPushed
          /\ DOMAIN ResolvedLabels(u) = {"zone"} /\ DOMAIN pd[u].labels = {"zone", "rack"}

\* No location labels configured: unlabelled stores, no push.
C27_NoKeys ==
    /\ pc = "upgrade" /\ LastStep = "setStoreLabelsForTiKV" /\ locationLabels = {}
    /\ OwnedListed # {} /\ LabelPushed = {} /\ setCount = 0

\* A rejected push is not counted.
C27_RejectedNotCounted ==
    /\ pc = "upgrade" /\ LastStep = "setStoreLabelsForTiKV"
    /\ setCount = 1 /\ Cardinality(LabelPushed) = 2

(* -------------------------------- C28 ---------------------------------- *)
\* The status sync of this cycle has just run on an existing workload.
PhaseSynced == pc = "pause" /\ LastStep = "syncTikvClusterStatus" /\ oldSet.exists

\* Some replica pod carries another revision hash than the workload's update
\* revision.
PodOnOlderRevision == \E i \in Ordinals : podRev[i] # 0 /\ podRev[i] # oldSet.template

\* C28: phase tracks upgrade completion. After a status sync of an existing
\* workload the phase is Normal exactly when no replica pod carries another
\* revision hash than the workload's update revision, and Upgrade otherwise,
\* whatever the phase of PD.
C28_PhaseTracksCompletion ==
    PhaseSynced =>
        /\ status.phase = "Normal" <=> ~PodOnOlderRevision
        /\ status.phase = "Upgrade" <=> PodOnOlderRevision

\* The same while PD itself is not in phase Upgrade.
C28_UnlessPDUpgrades ==
    (PhaseSynced /\ pdPhase # "Upgrade") =>
        /\ status.phase = "Normal" <=> ~PodOnOlderRevision
        /\ status.phase = "Upgrade" <=> PodOnOlderRevision

\* Phase Normal recorded while a pod is on an older revision and PD upgrades.
C28_NormalWhileRolling ==
    PhaseSynced /\ pdPhase = "Upgrade" /\ status.phase = "Normal" /\ PodOnOlderRevision

(* -------------------------------- C29 ---------------------------------- *)
\* The store mappings of the status are the listings PD gives right now.
SnapshotOfListing ==
    /\ DOMAIN status.stores = {s \in Stores : pd[s].state \in {"Up", "Down", "Offline"}}
    /\ DOMAIN status.tombstoneStores = {s \in Stores : pd[s].state = "Tombstone"}
    /\ \A s \in DOMAIN status.stores :
          status.stores[s].state = pd[s].state /\ status.stores[s].podName = s - 1
    /\ \A s \in DOMAIN status.tombstoneStores :
          status.tombstoneStores[s].state = "Tombstone" /\ status.tombstoneStores[s].podName = s - 1

\* C29 (as stated): after every status sync that returned no error the store
\* mappings are exactly the owned stores of the cycle's listings.
C29_SnapshotAfterEverySync ==
    (pc = "pause" /\ LastStep = "syncTikvClusterStatus") => SnapshotOfListing

\* C29 (amended): after every status sync of an existing workload that
\* returned no error the active mapping has exactly one entry per owned store
\* of the active listing and the tombstone mapping one per owned buried
\* store, stores of earlier mappings that are no longer listed being dropped;
\* without a workload the status sync lists nothing and leaves both
\* mappings as they were.
C29_SnapshotWhenWorkloadExists ==
    (pc = "pause" /\ LastStep = "syncTikvClusterStatus") =>
        /\ oldSet.exists => SnapshotOfListing
        /\ ~oldSet.exists =>
              /\ status.stores = status0.stores
              /\ status.tombstoneStores = status0.tombstoneStores

\* A store of the previous mapping left the active listing and was dropped
\* from the mapping, and shows up in the tombstone mapping.
C29_Witness ==
    /\ pc = "pause" /\ LastStep = "syncTikvClusterStatus" /\ oldSet.exists
    /\ \E s \in DOMAIN status0.stores :
          s \notin DOMAIN status.stores /\ s \in DOMAIN status.tombstoneStores
    /\ DOMAIN status.stores # {}

\* Without a workload the mapping still names a store PD no longer lists as
\* active.
C29_StaleWithoutWorkload ==
    /\ pc = "pause" /\ LastStep = "syncTikvClusterStatus" /\ ~oldSet.exists
    /\ \E s \in DOMAIN status.stores : pd[s].state = "Tombstone"

(* -------------------------------- C30 ---------------------------------- *)
\* The pod lister returns the pods in another order than before.
PodListReorder ==
    /\ Idle
    /\ listDescending' = ~listDescending
    /\ UNCHANGED <<specVars, pdmVars, set, podRev, svc, svcHost, cmObj, cmName, mounted,
                   pd, status, now, cycleVars>>
    /\ lastSync' = "changed"

\* External access: a cluster with a NodePort listener whose pod listing
\* changes its order between cycles.
InitPorts == InitFor({MaxReplicas}, {FALSE}, {-1}, {TRUE}, {FALSE}, {TRUE})
NextPorts ==
    \/ Cycle
    \/ PodListReorder
    \/ StoreRegister
SpecPorts == InitPorts /\ [][NextPorts]_vars

\* Sync has returned nil for a cluster with a NodePort listener.
PortsSynced == pc = "done" /\ result = "ok" /\ extListener /\ ~paused

\* C30: stable external port mapping. When Sync has returned nil there is,
\* for every replica ordinal i that has a pod, the NodePort service numbered
\* i (node port S + i, selector on pod i), and its external IP is the host
\* IP of pod i, whatever the order of the pod listing.
C30_StablePortMapping ==
    PortsSynced =>
        \A i \in Ordinals : podRev[i] # 0 => (svc[i + 1] = "same" /\ svcHost[i + 1] = i)

\* C30, second half: a cycle after a cycle that returned nil with nothing
\* changed but the order of the pod listing writes no service.
C30_NoRewriteOnReorder ==
    (pc = "done" /\ result = "ok" /\ extListener /\ oldSet.exists /\ set = oldSet /\ status.stores = status0.stores)
        => \A k \in 1 .. Len(writes) : writes[k].op # "updateService"

\* What holds: one service per listed pod, numbered by list position, with
\* the host IP of the pod at that position.
C30_ByListPosition ==
    PortsSynced =>
        \A n \in 1 .. Cardinality({i \in Ordinals : podRev[i] # 0}) :
            svc[n] = "same" /\ svcHost[n] = (IF listDescending THEN Cardinality({i \in Ordinals : podRev[i] # 0}) - n ELSE n - 1)

\* The service numbered 0 carries the host IP of pod 1.
C30_Crossed ==
    PortsSynced /\ podRev[0] # 0 /\ podRev[1] # 0 /\ svcHost[1] = 1 /\ svcHost[2] = 0

=============================================================================
